---- MODULE Spec2Model ----
(***************************************************************************)
(* Model of the middlewares of ridewindx/melware, the CORS one first.       *)
(*                                                                         *)
(* The repository holds two variants of the middleware:                    *)
(*   CorsMiddleware(c)  (src/cors.go)            - returns to the pipeline *)
(*   (c *cors) Middleware()  (src/unnamed/part_000) - ends with ctx.Next() *)
(* Both are modelled; the variable impl says which one built the handler.  *)
(*                                                                         *)
(* Strings are sequences of one-character strings, so that trimming,       *)
(* lower-casing, prefix tests and joins are computed, not assumed.         *)
(***************************************************************************)
EXTENDS Integers, Sequences, FiniteSets, TLC

VARIABLES
    impl,        \* which variant built the handler
    c,           \* the cors object (src/cors.go:11-46)
    given,       \* the fields of c as the user assigned them, before Middleware()
    handler,     \* "none" | "ready" (Middleware returned) | "panic"
    panicMsg,    \* which panic ended Middleware(), "" if none
    pc,          \* position of the request in the pipeline
    ctx,         \* mel.Context of the request in flight
    trace,       \* observations: what the middleware and the next handler did
    nz,          \* a call of normalizeStrs: its argument and its result
    reqs,        \* requests served concurrently by one handler
    jwt,         \* the JWT middleware: its configuration and the request it serves
    tok,         \* the JWT login and refresh handlers: the clock and the tokens issued
    cache,       \* the page cache: its store and the request it serves
    sess,        \* a session, its store and what was last saved
    fav          \* the favicon middleware and the request it serves

\* the variables of the CORS pipeline
corsVars == <<impl, c, given, handler, panicMsg, pc, ctx, trace>>

\* the variables the CORS pipeline never touches
outsideCors == <<nz, reqs, jwt, tok, cache, sess, fav>>

vars == <<impl, c, given, handler, panicMsg, pc, ctx, trace, nz, reqs, jwt,
          tok, cache, sess, fav>>

-----------------------------------------------------------------------------
(* Bounds *)

\* Longest AllowOrigins list a configuration holds.
MaxOrigins == 2

-----------------------------------------------------------------------------
(* Characters and strings *)

Lowers == <<"a","b","c","d","e","f","g","h","i","j","k","l","m",
            "n","o","p","q","r","s","t","u","v","w","x","y","z">>
Uppers == <<"A","B","C","D","E","F","G","H","I","J","K","L","M",
            "N","O","P","Q","R","S","T","U","V","W","X","Y","Z">>

IsUpper(ch) == \E i \in DOMAIN Uppers : Uppers[i] = ch
IsLower(ch) == \E i \in DOMAIN Lowers : Lowers[i] = ch

\* strings.ToLower, one character
ToLowerChar(ch) ==
    IF IsUpper(ch) THEN Lowers[CHOOSE i \in DOMAIN Uppers : Uppers[i] = ch] ELSE ch

\* strings.ToUpper, one character
ToUpperChar(ch) ==
    IF IsLower(ch) THEN Uppers[CHOOSE i \in DOMAIN Lowers : Lowers[i] = ch] ELSE ch

ToLower(s) == [i \in 1..Len(s) |-> ToLowerChar(s[i])]
ToUpper(s) == [i \in 1..Len(s) |-> ToUpperChar(s[i])]

IsSpace(ch) == ch \in {" ", "\t"}

RECURSIVE TrimLeft(_)
TrimLeft(s) == IF s # <<>> /\ IsSpace(Head(s)) THEN TrimLeft(Tail(s)) ELSE s

RECURSIVE TrimRight(_)
TrimRight(s) ==
    IF s # <<>> /\ IsSpace(s[Len(s)]) THEN TrimRight(SubSeq(s, 1, Len(s) - 1)) ELSE s

\* strings.TrimSpace
TrimSpace(s) == TrimRight(TrimLeft(s))

\* strings.HasPrefix
HasPrefix(s, prefix) ==
    Len(s) >= Len(prefix) /\ SubSeq(s, 1, Len(prefix)) = prefix

\* strings.Join
RECURSIVE Join(_, _)
Join(strs, sep) ==
    IF strs = <<>> THEN <<>>
    ELSE IF Len(strs) = 1 THEN strs[1]
    ELSE strs[1] \o sep \o Join(Tail(strs), sep)

\* The values of a list, as a set.
Range(f) == {f[i] : i \in DOMAIN f}

\* String literals of the source.
Star      == <<"*">>
HttpPfx   == <<"h","t","t","p",":","/","/">>
HttpsPfx  == <<"h","t","t","p","s",":","/","/">>
StrTrue   == <<"t","r","u","e">>
StrOrigin == <<"O","r","i","g","i","n">>
Comma     == <<",">>


\* Characters net/textproto accepts in a header field name (token characters).
IsTokenChar(ch) ==
    \/ IsUpper(ch) \/ IsLower(ch)
    \/ ch \in {"0","1","2","3","4","5","6","7","8","9"}
    \/ ch \in {"!", "#", "$", "%", "&", "*", "+", "-", ".", "_", "|", "~"}

RECURSIVE CanonicalFrom(_, _)
CanonicalFrom(s, upper) ==
    IF s = <<>> THEN <<>>
    ELSE LET ch  == Head(s)
             out == IF upper THEN ToUpperChar(ch) ELSE ToLowerChar(ch)
         IN <<out>> \o CanonicalFrom(Tail(s), out = "-")

\* http.CanonicalHeaderKey: the first letter and every letter after a hyphen
\* upper case, the rest lower case; a key holding a space or another
\* non-token character is returned unchanged.
CanonicalHeaderKey(s) ==
    IF \A i \in 1..Len(s) : IsTokenChar(s[i]) THEN CanonicalFrom(s, TRUE) ELSE s

Digits == <<"0","1","2","3","4","5","6","7","8","9">>

\* fmt.Sprintf("%d", n) for n >= 0
RECURSIVE Itoa(_)
Itoa(n) == IF n < 10 THEN <<Digits[n + 1]>> ELSE Itoa(n \div 10) \o <<Digits[(n % 10) + 1]>>

\* time.Duration is counted here in milliseconds (TLC integers are 32 bits wide),
\* so time.Second is 1000 of them; only the quotient MaxAge/time.Second is read.
Second == 1000
Hour   == 3600 * Second

-----------------------------------------------------------------------------
(* Header maps: http.Header, key -> list of values; no values = key absent *)

ACAOrigin      == "Access-Control-Allow-Origin"
ACACredentials == "Access-Control-Allow-Credentials"
ACExposeHdrs   == "Access-Control-Expose-Headers"
ACAMethods     == "Access-Control-Allow-Methods"
ACAHeaders     == "Access-Control-Allow-Headers"
ACMaxAge       == "Access-Control-Max-Age"
Vary           == "Vary"

HeaderKeys == {ACAOrigin, ACACredentials, ACExposeHdrs, ACAMethods, ACAHeaders,
               ACMaxAge, Vary}

\* make(http.Header); also the zero value of a header field of the cors struct
EmptyHeader == [k \in HeaderKeys |-> <<>>]

\* http.Header.Set
HSet(h, k, v) == [h EXCEPT ![k] = <<v>>]

\* http.Header.Add
HAdd(h, k, v) == [h EXCEPT ![k] = Append(@, v)]

StrACRequestMethod  == <<"A","c","c","e","s","s","-","C","o","n","t","r","o","l","-","R","e","q","u","e","s","t","-","M","e","t","h","o","d">>
StrACRequestHeaders == <<"A","c","c","e","s","s","-","C","o","n","t","r","o","l","-","R","e","q","u","e","s","t","-","H","e","a","d","e","r","s">>

-----------------------------------------------------------------------------
(* The cors object and its methods *)

\* seen-set loop of normalizeStrs: acc is `normalized`, whose values are `set`
RECURSIVE normalizeLoop(_, _)
normalizeLoop(strs, acc) ==
    IF strs = <<>> THEN acc
    ELSE LET str == ToLower(TrimSpace(Head(strs)))
         IN normalizeLoop(Tail(strs),
                          IF str \in Range(acc) THEN acc ELSE Append(acc, str))

\* normalizeStrs as it would be without strings.TrimSpace
RECURSIVE normalizeLoopNoTrim(_, _)
normalizeLoopNoTrim(strs, acc) ==
    IF strs = <<>> THEN acc
    ELSE LET str == ToLower(Head(strs))
         IN normalizeLoopNoTrim(Tail(strs),
                                IF str \in Range(acc) THEN acc ELSE Append(acc, str))

normalizeNoTrim(strs) == IF strs = <<>> THEN <<>> ELSE normalizeLoopNoTrim(strs, <<>>)

\* normalizeStrs as it would be with the seen-set keyed by the raw element
RECURSIVE normalizeLoopRawSeen(_, _, _)
normalizeLoopRawSeen(strs, seen, acc) ==
    IF strs = <<>> THEN acc
    ELSE normalizeLoopRawSeen(Tail(strs), seen \cup {Head(strs)},
                              IF Head(strs) \in seen THEN acc
                              ELSE Append(acc, ToLower(TrimSpace(Head(strs)))))

normalizeRawSeen(strs) == IF strs = <<>> THEN <<>> ELSE normalizeLoopRawSeen(strs, {}, <<>>)

\* func (c *cors) normalizeStrs(strs []string) []string
\* (a nil slice and an empty one are both <<>>)
normalizeStrs(strs) == IF strs = <<>> THEN <<>> ELSE normalizeLoop(strs, <<>>)

\* func (c *cors) convert(strs, f), for f = strings.ToUpper
convertToUpper(strs) == [i \in 1..Len(strs) |-> ToUpper(strs[i])]

\* func (c *cors) convert(strs, f), for f = http.CanonicalHeaderKey
convertCanonical(strs) == [i \in 1..Len(strs) |-> CanonicalHeaderKey(strs[i])]

\* generateNormalHeaders as it would be without http.CanonicalHeaderKey
generateNormalHeadersRaw(cc) ==
    LET h0 == EmptyHeader
        h1 == IF cc.AllowCredentials THEN HSet(h0, ACACredentials, StrTrue) ELSE h0
        h2 == IF Len(cc.ExposeHeaders) > 0
              THEN HSet(h1, ACExposeHdrs, Join(normalizeStrs(cc.ExposeHeaders), Comma))
              ELSE h1
    IN IF cc.allowAllOrigins THEN HSet(h2, ACAOrigin, Star)
       ELSE HSet(h2, Vary, StrOrigin)

\* func (c *cors) generateNormalHeaders() http.Header
generateNormalHeaders(cc) ==
    LET h0 == EmptyHeader
        h1 == IF cc.AllowCredentials THEN HSet(h0, ACACredentials, StrTrue) ELSE h0
        h2 == IF Len(cc.ExposeHeaders) > 0
              THEN HSet(h1, ACExposeHdrs,
                        Join(convertCanonical(normalizeStrs(cc.ExposeHeaders)), Comma))
              ELSE h1
    IN IF cc.allowAllOrigins THEN HSet(h2, ACAOrigin, Star)
       ELSE HSet(h2, Vary, StrOrigin)

\* generatePreflightHeaders as it would be if Vary were written with Set
generatePreflightHeadersVarySet(cc) ==
    LET h0 == EmptyHeader
        h1 == IF cc.AllowCredentials THEN HSet(h0, ACACredentials, StrTrue) ELSE h0
        h2 == IF Len(cc.AllowMethods) > 0
              THEN HSet(h1, ACAMethods,
                        Join(convertToUpper(normalizeStrs(cc.AllowMethods)), Comma))
              ELSE h1
        h3 == IF Len(cc.AllowHeaders) > 0
              THEN HSet(h2, ACAHeaders,
                        Join(convertCanonical(normalizeStrs(cc.AllowHeaders)), Comma))
              ELSE h2
        h4 == IF cc.MaxAge > 0
              THEN HSet(h3, ACMaxAge, Itoa(cc.MaxAge \div Second))
              ELSE h3
    IN IF cc.allowAllOrigins THEN HSet(h4, ACAOrigin, Star)
       ELSE HSet(HSet(HSet(h4, Vary, StrOrigin), Vary, StrACRequestMethod),
                 Vary, StrACRequestHeaders)

\* generatePreflightHeaders as it would be if Max-Age were written for every
\* MaxAge >= 0
generatePreflightHeadersZeroAge(cc) ==
    LET h0 == EmptyHeader
        h1 == IF cc.AllowCredentials THEN HSet(h0, ACACredentials, StrTrue) ELSE h0
        h2 == IF Len(cc.AllowMethods) > 0
              THEN HSet(h1, ACAMethods,
                        Join(convertToUpper(normalizeStrs(cc.AllowMethods)), Comma))
              ELSE h1
        h3 == IF Len(cc.AllowHeaders) > 0
              THEN HSet(h2, ACAHeaders,
                        Join(convertCanonical(normalizeStrs(cc.AllowHeaders)), Comma))
              ELSE h2
        h4 == IF cc.MaxAge >= 0
              THEN HSet(h3, ACMaxAge, Itoa(cc.MaxAge \div Second))
              ELSE h3
    IN IF cc.allowAllOrigins THEN HSet(h4, ACAOrigin, Star)
       ELSE HAdd(HAdd(HAdd(h4, Vary, StrOrigin), Vary, StrACRequestMethod),
                 Vary, StrACRequestHeaders)

\* func (c *cors) generatePreflightHeaders() http.Header
generatePreflightHeaders(cc) ==
    LET h0 == EmptyHeader
        h1 == IF cc.AllowCredentials THEN HSet(h0, ACACredentials, StrTrue) ELSE h0
        h2 == IF Len(cc.AllowMethods) > 0
              THEN HSet(h1, ACAMethods,
                        Join(convertToUpper(normalizeStrs(cc.AllowMethods)), Comma))
              ELSE h1
        h3 == IF Len(cc.AllowHeaders) > 0
              THEN HSet(h2, ACAHeaders,
                        Join(convertCanonical(normalizeStrs(cc.AllowHeaders)), Comma))
              ELSE h2
        h4 == IF cc.MaxAge > 0
              THEN HSet(h3, ACMaxAge, Itoa(cc.MaxAge \div Second))
              ELSE h3
    IN IF cc.allowAllOrigins THEN HSet(h4, ACAOrigin, Star)
       ELSE HAdd(HAdd(HAdd(h4, Vary, StrOrigin), Vary, StrACRequestMethod),
                 Vary, StrACRequestHeaders)

\* AllowOriginFunc: nil, or a predicate given by the origins it answers true for
NilFunc == [isNil |-> TRUE, accepts |-> {}]
Func(accepted) == [isNil |-> FALSE, accepts |-> accepted]

\* the loop of validateOrigin over c.AllowOrigins
inAllowOrigins(cc, origin) == \E i \in 1..Len(cc.AllowOrigins) : cc.AllowOrigins[i] = origin

\* validateOrigin as it would call the predicate if it asked it before the list
callsAllowOriginFuncFirst(cc, origin) ==
    /\ ~cc.allowAllOrigins
    /\ ~cc.AllowOriginFunc.isNil

\* whether validateOrigin calls c.AllowOriginFunc(origin)
callsAllowOriginFunc(cc, origin) ==
    /\ ~cc.allowAllOrigins
    /\ ~inAllowOrigins(cc, origin)
    /\ ~cc.AllowOriginFunc.isNil

\* validateOrigin as it would be with a case-insensitive comparison
validateOriginFold(cc, origin) ==
    IF cc.allowAllOrigins THEN TRUE
    ELSE IF inAllowOrigins(cc, ToLower(origin)) THEN TRUE
    ELSE IF ~cc.AllowOriginFunc.isNil THEN origin \in cc.AllowOriginFunc.accepts
    ELSE FALSE

\* func (c *cors) validateOrigin(origin string) bool
validateOrigin(cc, origin) ==
    IF cc.allowAllOrigins THEN TRUE
    ELSE IF inAllowOrigins(cc, origin) THEN TRUE
    ELSE IF ~cc.AllowOriginFunc.isNil THEN origin \in cc.AllowOriginFunc.accepts
    ELSE FALSE


-----------------------------------------------------------------------------
(* Configurations *)

\* Origin strings a configuration may list
OStarSp  == <<" ", "*", " ">>
OHttpA   == <<"h", "t", "t", "p", ":", "/", "/", "a">>
OHTTPA   == <<"H", "T", "T", "P", ":", "/", "/", "A">>
OHttpsA  == <<"h", "t", "t", "p", "s", ":", "/", "/", "a">>
OFtpA    == <<"f", "t", "p", ":", "/", "/", "a">>
\* Origins only requests carry
OBare    == <<"a">>
OHttpC   == <<"h", "t", "t", "p", ":", "/", "/", "c">>

OriginStrs == {Star, OStarSp, OHttpA, OHTTPA, OHttpsA, OFtpA}

OriginLists == UNION {[1..n -> OriginStrs] : n \in 0..MaxOrigins}

OriginFuncs == {NilFunc, Func({OHttpC, OHTTPA})}

\* func Cors() *cors of CorsMiddleware's file
CorsDefaultA ==
    [AllowOrigins     |-> <<Star>>,
     AllowOriginFunc  |-> NilFunc,
     AllowMethods     |->
     <<<<"G", "E", "T">>,
       <<"P", "O", "S", "T">>,
       <<"P", "U", "T">>,
       <<"H", "E", "A", "D">>>>,
     AllowHeaders     |->
     <<<<"O", "r", "i", "g", "i", "n">>,
       <<"C", "o", "n", "t", "e", "n", "t", "-", "L", "e", "n", "g", "t", "h">>,
       <<"C", "o", "n", "t", "e", "n", "t", "-", "T", "y", "p", "e">>>>,
     AllowCredentials |-> FALSE,
     ExposeHeaders    |-> <<>>,
     MaxAge           |-> 12 * Hour,
     allowAllOrigins  |-> FALSE,
     normalHeaders    |-> EmptyHeader,
     preflightHeaders |-> EmptyHeader]

\* func Cors() *cors of the Middleware() method's file
CorsDefaultB ==
    [CorsDefaultA EXCEPT
       !.AllowMethods =
       <<<<"G", "E", "T">>,
       <<"P", "O", "S", "T">>,
       <<"H", "E", "A", "D">>>>,
       !.AllowHeaders =
       <<<<"O", "r", "i", "g", "i", "n">>,
       <<"A", "c", "c", "e", "p", "t">>,
       <<"C", "o", "n", "t", "e", "n", "t", "-", "T", "y", "p", "e">>>>]

Cors(variant) == IF variant = "CorsMiddleware" THEN CorsDefaultA ELSE CorsDefaultB

Variants == {"CorsMiddleware", "Middleware"}

\* Lists the user may assign to the other fields (cors_test.go:125-132, 209-216)
ExposeChoices == {<<>>,
       <<<<"X", "-", "u", "s", "e", "r">>,
       <<"x", "P", "a", "s", "s", "w", "o", "r", "d">>>>}
MethodChoices(variant) == {<<>>, Cors(variant).AllowMethods}
HeaderChoices(variant) == {Cors(variant).AllowHeaders,
       <<<<"C", "o", "n", "t", "e", "n", "t", "-", "t", "y", "p", "e">>,
       <<"t", "i", "m", "e", "S", "t", "a", "m", "p", " ">>>>}
MaxAgeChoices == {0, 12 * Hour}

\* The cors object after the user's assignments to the fields of Cors()
Configs(variant) ==
    {[Cors(variant) EXCEPT !.AllowOrigins = o, !.AllowOriginFunc = f,
                           !.AllowCredentials = cr, !.ExposeHeaders = e,
                           !.AllowMethods = m, !.AllowHeaders = hh, !.MaxAge = a] :
        o \in OriginLists, f \in OriginFuncs, cr \in BOOLEAN, e \in ExposeChoices,
        m \in MethodChoices(variant), hh \in HeaderChoices(variant),
        a \in MaxAgeChoices}

-----------------------------------------------------------------------------
(* Requests and the pipeline *)

Methods    == {"GET", "POST", "OPTIONS"}
ReqOrigins == {<<>>, OHttpA, OHTTPA, OHttpsA, OBare, OHttpC}

\* the context of a request entering the pipeline, nothing written yet
NewContext(method, origin) ==
    [Method |-> method, Origin |-> origin, Header |-> EmptyHeader,
     status |-> 0, aborted |-> FALSE, body |-> ""]

NoObs == [validated |-> FALSE, predCalls |-> <<>>, nextCalls |-> 0,
          mwStatus |-> 0, headerAtNext |-> EmptyHeader]

\* ctx.AbortWithStatus(code)
AbortWithStatus(x, code) == [x EXCEPT !.status = code, !.aborted = TRUE]

\* for key, value := range headers { ctx.Header(key, value) }
WriteHeaders(x, headers) ==
    [x EXCEPT !.Header = [k \in HeaderKeys |->
                            IF headers[k] # <<>> THEN headers[k] ELSE @[k]]]

\* ctx.Header(key, value) with a single value
SetHeader(x, key, value) == [x EXCEPT !.Header[key] = <<value>>]

\* normalizeStrs not called, no concurrent request, no JWT middleware
NzIdle   == [pc |-> "off"]
ReqsIdle == <<>>
JwtIdle  == [pc |-> "off"]

\* no login or refresh, no cached page, no session, no favicon request
OthersIdle ==
    /\ tok = [pc |-> "off"]
    /\ cache = [pc |-> "off"]
    /\ sess = [pc |-> "off"]
    /\ fav = [pc |-> "off"]

\* the cors object just built and assigned, no request yet
CorsStart(configs) ==
    /\ c \in configs
    /\ given = c
    /\ handler = "none"
    /\ panicMsg = ""
    /\ pc = "idle"
    /\ ctx = NewContext("GET", <<>>)
    /\ trace = NoObs

Init ==
    /\ impl \in Variants
    /\ CorsStart(Configs(impl))
    /\ nz = NzIdle
    /\ reqs = ReqsIdle
    /\ OthersIdle
    /\ jwt = JwtIdle


-----------------------------------------------------------------------------
(* Middleware(): validation of the configuration, then the two header sets *)

PanicPredicate == "All origins are allowed, no predicate function needed"
PanicMixed     == "All origins for cors are allowed, no individual origins needed"
PanicPrefix    == "Origin must have prefix 'http://' or 'https://'"
PanicNoOrigin  == "No origin is allowed"

\* the loop body as it would be without the test of the prefix
offendingStarOnly(origin) == origin = Star

\* an entry on which the loop over c.AllowOrigins panics
offending(origin) ==
    \/ origin = Star
    \/ ~HasPrefix(origin, HttpPfx) /\ ~HasPrefix(origin, HttpsPfx)

\* validationPanic as it would be if the first branch tested only
\* c.AllowOrigins[0] == "*", not the length
validationPanicFirstOnly(norm, func) ==
    IF Len(norm) >= 1 /\ norm[1] = Star
    THEN IF ~func.isNil THEN PanicPredicate ELSE ""
    ELSE IF Len(norm) > 0
    THEN IF \E i \in 1..Len(norm) : offending(norm[i])
         THEN PanicPrefix
         ELSE ""
    ELSE IF func.isNil THEN PanicNoOrigin ELSE ""

\* validationPanic as it would be if an empty list always panicked
validationPanicEmptyAlways(norm, func) ==
    IF Len(norm) = 1 /\ norm[1] = Star
    THEN IF ~func.isNil THEN PanicPredicate ELSE ""
    ELSE IF Len(norm) > 0
    THEN IF \E i \in 1..Len(norm) : offending(norm[i])
         THEN IF \E i \in 1..Len(norm) : norm[i] = Star THEN PanicMixed ELSE PanicPrefix
         ELSE ""
    ELSE PanicNoOrigin

\* The panic that ends the validation of the normalized list, "" if none.
validationPanic(norm, func) ==
    IF Len(norm) = 1 /\ norm[1] = Star
    THEN IF ~func.isNil THEN PanicPredicate ELSE ""
    ELSE IF Len(norm) > 0
    THEN IF \E i \in 1..Len(norm) : offending(norm[i])
         THEN LET first == CHOOSE i \in 1..Len(norm) :
                              /\ offending(norm[i])
                              /\ \A j \in 1..(i - 1) : ~offending(norm[j])
              IN IF norm[first] = Star THEN PanicMixed ELSE PanicPrefix
         ELSE ""
    ELSE IF func.isNil THEN PanicNoOrigin ELSE ""

\* The flag after the first branch: set for the single wildcard, else left alone.
flagAfterValidation(norm, flag) ==
    IF Len(norm) = 1 /\ norm[1] = Star THEN TRUE ELSE flag

\* The body of Middleware() / CorsMiddleware(c) applied to the object cc:
\* the object it leaves behind and the panic message ("" when it returns).
initialise(cc) ==
    LET norm == normalizeStrs(cc.AllowOrigins)
        c1   == [cc EXCEPT !.AllowOrigins = norm,
                           !.allowAllOrigins = flagAfterValidation(norm, @)]
        msg  == validationPanic(norm, cc.AllowOriginFunc)
    IN IF msg # ""
       THEN [c |-> c1, panic |-> msg]
       ELSE [c |-> [c1 EXCEPT !.normalHeaders = generateNormalHeaders(c1),
                              !.preflightHeaders = generatePreflightHeaders(c1)],
             panic |-> ""]

\* Middleware() / CorsMiddleware(c), up to the return of the handler
Middleware ==
    /\ handler = "none"
    /\ LET r == initialise(c)
       IN /\ c' = r.c
          /\ panicMsg' = r.panic
          /\ handler' = IF r.panic # "" THEN "panic" ELSE "ready"
    /\ UNCHANGED <<impl, given, pc, ctx, trace>>
    /\ UNCHANGED outsideCors

-----------------------------------------------------------------------------
(* The handler Middleware() returns *)

\* the echo step as it would be if it wrote the lower-cased origin
echoLowered(cc, x) ==
    IF ~cc.allowAllOrigins /\ ~cc.AllowCredentials
    THEN SetHeader(x, ACAOrigin, ToLower(x.Origin))
    ELSE x

\* the echo step as it would be without its condition
echoAlways(cc, x) == SetHeader(x, ACAOrigin, x.Origin)

\* the echo step: if !c.allowAllOrigins && !c.AllowCredentials
echoOrigin(cc, x) ==
    IF ~cc.allowAllOrigins /\ ~cc.AllowCredentials
    THEN SetHeader(x, ACAOrigin, x.Origin)
    ELSE x

\* the header step as it would be if every allowed request got the
\* preflight headers
writePreflightAlways(cc, x) == WriteHeaders(x, cc.preflightHeaders)

\* the header step of an allowed request: preflight or normal headers
writePrecomputed(cc, x) ==
    IF x.Method = "OPTIONS" THEN WriteHeaders(x, cc.preflightHeaders)
    ELSE WriteHeaders(x, cc.normalHeaders)

\* evaluate as it would be if the headers were written before the validation
evaluateHeadersFirst(cc, x) ==
    IF Len(x.Origin) = 0 THEN x
    ELSE IF ~validateOrigin(cc, x.Origin)
         THEN AbortWithStatus(writePrecomputed(cc, x), 403)
    ELSE echoOrigin(cc, writePrecomputed(cc, x))

\* evaluate as it would be without the test for an empty Origin
evaluateNoEmptyCheck(cc, x) ==
    IF ~validateOrigin(cc, x.Origin) THEN AbortWithStatus(x, 403)
    ELSE echoOrigin(cc, writePrecomputed(cc, x))

\* The body of the handler from the read of Origin to the echo step, without
\* the deferred abort and without ctx.Next().
evaluate(cc, x) ==
    IF Len(x.Origin) = 0 THEN x
    ELSE IF ~validateOrigin(cc, x.Origin) THEN AbortWithStatus(x, 403)
    ELSE echoOrigin(cc, writePrecomputed(cc, x))

\* whether the handler passed the validation (neither early return taken)
passes(cc, x) == Len(x.Origin) # 0 /\ validateOrigin(cc, x.Origin)

\* what the handler is seen to do in evaluate: whether it validated the
\* origin, and the arguments it passed to c.AllowOriginFunc
observe(cc, x) ==
    [NoObs EXCEPT
       !.validated = Len(x.Origin) # 0,
       !.predCalls = IF Len(x.Origin) # 0 /\ callsAllowOriginFunc(cc, x.Origin)
                     THEN <<x.Origin>> ELSE <<>>]

\* the deferred ctx.AbortWithStatus(200) of the OPTIONS branch
runDeferred(x) == IF x.Method = "OPTIONS" THEN AbortWithStatus(x, 200) ELSE x

\* The handler of CorsMiddleware (src/cors.go): it returns to the pipeline,
\* the deferred abort runs at the return.
CorsHandler(method, origin) ==
    /\ handler = "ready" /\ impl = "CorsMiddleware"
    /\ pc \in {"idle", "done"}
    /\ LET x0 == NewContext(method, origin)
           x1 == evaluate(c, x0)
           ok == passes(c, x0)
           x2 == IF ok THEN runDeferred(x1) ELSE x1
       IN /\ ctx' = x2
          /\ trace' = [observe(c, x0) EXCEPT !.mwStatus = x2.status]
    /\ pc' = "returned"
    /\ UNCHANGED <<impl, c, given, handler, panicMsg>>
    /\ UNCHANGED outsideCors

\* The handler of the Middleware() method: an allowed request ends in
\* ctx.Next(), and the deferred abort waits for Next to return.
MethodHandler(method, origin) ==
    /\ handler = "ready" /\ impl = "Middleware"
    /\ pc \in {"idle", "done"}
    /\ LET x0 == NewContext(method, origin)
       IN /\ ctx' = evaluate(c, x0)
          /\ trace' = [observe(c, x0) EXCEPT !.mwStatus = evaluate(c, x0).status]
          /\ pc' = IF passes(c, x0) THEN "inNext" ELSE "returned"
    /\ UNCHANGED <<impl, c, given, handler, panicMsg>>
    /\ UNCHANGED outsideCors

\* The next handler of the pipeline (the application's route handler):
\* it answers c.Text(200, <method>).  It runs when the middleware returned
\* without aborting, or inside the middleware's ctx.Next().
NextHandler ==
    /\ \/ pc = "returned" /\ ~ctx.aborted
       \/ pc = "inNext"
    /\ ctx' = [ctx EXCEPT !.status = 200, !.body = ctx.Method]
    /\ trace' = [trace EXCEPT !.nextCalls = @ + 1, !.headerAtNext = ctx.Header]
    /\ pc' = IF pc = "inNext" THEN "nextReturned" ELSE "done"
    /\ UNCHANGED <<impl, c, given, handler, panicMsg>>
    /\ UNCHANGED outsideCors

\* ctx.Next() returned into the Middleware() method's handler: the deferred
\* abort runs and the handler returns; no handler is left in the chain.
HandlerReturn ==
    /\ pc = "nextReturned"
    /\ ctx' = runDeferred(ctx)
    /\ trace' = [trace EXCEPT !.mwStatus = IF runDeferred(ctx) # ctx
                                             THEN runDeferred(ctx).status ELSE @]
    /\ pc' = "done"
    /\ UNCHANGED <<impl, c, given, handler, panicMsg>>
    /\ UNCHANGED outsideCors

\* The middleware aborted: the pipeline runs no further handler.
PipelineEnd ==
    /\ pc = "returned" /\ ctx.aborted
    /\ pc' = "done"
    /\ UNCHANGED <<impl, c, given, handler, panicMsg, ctx, trace>>
    /\ UNCHANGED outsideCors

Next ==
    \/ Middleware
    \/ \E method \in Methods, origin \in ReqOrigins : CorsHandler(method, origin)
    \/ \E method \in Methods, origin \in ReqOrigins : MethodHandler(method, origin)
    \/ NextHandler
    \/ HandlerReturn
    \/ PipelineEnd

Spec == Init /\ [][Next]_vars


-----------------------------------------------------------------------------
(* Properties *)

\* the middleware handled a request
Handled == handler = "ready" /\ pc # "idle"

\* the request handled carries a non-empty Origin
CorsRequest == Handled /\ Len(ctx.Origin) > 0

\* The rule of the specification for an origin: the wildcard flag, or equality
\* with an entry of the normalized list, or a configured predicate's answer.
Admitted(origin) ==
    \/ c.allowAllOrigins
    \/ origin \in Range(c.AllowOrigins)
    \/ ~c.AllowOriginFunc.isNil /\ origin \in c.AllowOriginFunc.accepts

\* the response headers the CORS protocol defines
CorsHeaderKeys == {ACAOrigin, ACACredentials, ACExposeHdrs, ACAMethods, ACAHeaders,
                   ACMaxAge}

\* the headers only a preflight response carries
PreflightOnlyKeys == {ACAMethods, ACAHeaders, ACMaxAge}

C2_DeniedIs403 ==
    (CorsRequest /\ ~Admitted(ctx.Origin)) =>
      /\ ctx.status = 403 /\ trace.mwStatus = 403
      /\ ctx.aborted
      /\ trace.nextCalls = 0
      /\ ctx.body = ""
      /\ \A k \in CorsHeaderKeys : ctx.Header[k] = <<>>
      /\ pc \in {"returned", "done"}

\* C2 witness: a denied OPTIONS request at the end of the pipeline.
C2_Witness ==
    /\ CorsRequest /\ ~Admitted(ctx.Origin)
    /\ pc = "done" /\ ctx.Method = "OPTIONS" /\ ctx.status = 403

\* C3: a request without Origin, whatever the policy and the method: the
\* middleware sets no header and no status, consults neither the origin list
\* nor the predicate, and the request reaches the next handler unmodified.
C3_NoOriginPassesThrough ==
    (Handled /\ Len(ctx.Origin) = 0) =>
      /\ ctx.Header = EmptyHeader
      /\ trace.mwStatus = 0
      /\ ~ctx.aborted
      /\ ~trace.validated /\ trace.predCalls = <<>>
      /\ pc \in {"returned", "done"}
      /\ pc = "returned" => (ctx.status = 0 /\ ctx.body = "" /\ trace.nextCalls = 0)
      /\ pc = "done" => (trace.nextCalls = 1 /\ trace.headerAtNext = EmptyHeader)

\* C3 witness: an OPTIONS request without Origin reached the next handler of a
\* policy with a specific origin list and a predicate.
C3_Witness ==
    /\ Handled /\ Len(ctx.Origin) = 0 /\ pc = "done"
    /\ ctx.Method = "OPTIONS" /\ trace.nextCalls = 1
    /\ ~c.allowAllOrigins /\ ~c.AllowOriginFunc.isNil /\ Len(c.AllowOrigins) > 0

\* C4: an OPTIONS request whose non-empty Origin passes validation gets all
\* precomputed preflight headers, status 200, an empty body and an aborted
\* pipeline, and the next handler is never invoked for it.
C4_PreflightNeverForwarded ==
    (CorsRequest /\ Admitted(ctx.Origin) /\ ctx.Method = "OPTIONS") =>
      /\ \A k \in HeaderKeys \ {ACAOrigin} :
            c.preflightHeaders[k] # <<>> => ctx.Header[k] = c.preflightHeaders[k]
      /\ trace.nextCalls = 0
      /\ ctx.body = ""
      /\ pc = "done" => (ctx.status = 200 /\ ctx.aborted)

\* C5: a request of another method whose non-empty Origin passes validation:
\* all precomputed normal headers and none of the preflight-only headers are
\* on the response before the next handler runs, the next handler runs exactly
\* once, and the middleware sets no status.
C5_NormalForwarded ==
    (CorsRequest /\ Admitted(ctx.Origin) /\ ctx.Method # "OPTIONS") =>
      /\ trace.mwStatus = 0 /\ ~ctx.aborted
      /\ \A k \in HeaderKeys :
            c.normalHeaders[k] # <<>> => ctx.Header[k] = c.normalHeaders[k]
      /\ \A k \in PreflightOnlyKeys : ctx.Header[k] = <<>>
      /\ trace.nextCalls <= 1
      /\ trace.nextCalls = 0 => (ctx.status = 0 /\ pc \in {"returned", "inNext"})
      /\ trace.nextCalls = 1 => trace.headerAtNext = ctx.Header
      /\ pc = "done" => trace.nextCalls = 1

\* C5 witness: an allowed POST with exposed headers configured ran the next
\* handler once.
C5_Witness ==
    /\ CorsRequest /\ Admitted(ctx.Origin) /\ ctx.Method = "POST" /\ pc = "done"
    /\ trace.nextCalls = 1
    /\ trace.headerAtNext[ACExposeHdrs] # <<>>
    /\ c.preflightHeaders[ACAMethods] # <<>>

\* C6: in both allowed branches, with allowAllOrigins false and
\* AllowCredentials false, Access-Control-Allow-Origin is exactly the request's
\* raw Origin, also when the predicate admitted it.
C6_EchoRawOrigin ==
    (CorsRequest /\ Admitted(ctx.Origin) /\ ~c.allowAllOrigins /\ ~c.AllowCredentials) =>
      /\ ctx.Header[ACAOrigin] = <<ctx.Origin>>
      /\ trace.nextCalls = 1 => trace.headerAtNext[ACAOrigin] = <<ctx.Origin>>

\* C6 witness: a preflight from 'HTTP://A', admitted by the predicate only.
C6_Witness ==
    /\ CorsRequest /\ pc = "done" /\ ctx.Method = "OPTIONS"
    /\ ~c.allowAllOrigins /\ ~c.AllowCredentials
    /\ ctx.Origin = OHTTPA /\ ~(ctx.Origin \in Range(c.AllowOrigins))
    /\ ctx.Header[ACAOrigin] = <<OHTTPA>>

\* C7: with specific origins (allowAllOrigins false) and AllowCredentials true,
\* every allowed request's response carries Access-Control-Allow-Origin equal
\* to the request's Origin together with Access-Control-Allow-Credentials: true.
C7_EchoWithCredentials ==
    (CorsRequest /\ Admitted(ctx.Origin) /\ ~c.allowAllOrigins /\ c.AllowCredentials) =>
      /\ ctx.Header[ACAOrigin] = <<ctx.Origin>>
      /\ ctx.Header[ACACredentials] = <<StrTrue>>

\* C8: with AllowOrigins = ["*"], a request with any non-empty Origin, also one
\* without a scheme, is never answered 403; a non-OPTIONS request is forwarded
\* with Access-Control-Allow-Origin: '*', a preflight ends with 200 and the
\* same header, and the value is never replaced by the request's origin.
C8_WildcardAllowsAll ==
    (CorsRequest /\ c.AllowOrigins = <<Star>>) =>
      /\ ctx.status # 403 /\ trace.mwStatus # 403
      /\ ctx.Header[ACAOrigin] = <<Star>>
      /\ ctx.Method # "OPTIONS" =>
            /\ ~ctx.aborted
            /\ pc = "done" =>
                  (trace.nextCalls = 1 /\ trace.headerAtNext[ACAOrigin] = <<Star>>)
      /\ (ctx.Method = "OPTIONS" /\ pc = "done") => (ctx.status = 200 /\ ctx.aborted)

\* C8 witness: a POST from 'a' (no scheme) was forwarded with the wildcard.
C8_Witness ==
    /\ CorsRequest /\ c.AllowOrigins = <<Star>> /\ pc = "done"
    /\ ctx.Method = "POST" /\ ctx.Origin = OBare
    /\ trace.nextCalls = 1 /\ ctx.Header[ACAOrigin] = <<Star>>

\* a list all of whose entries are "*" once trimmed: it normalizes to ["*"]
WildcardOnly(list) ==
    Len(list) > 0 /\ \A i \in 1..Len(list) : ToLower(TrimSpace(list[i])) = Star

\* a list holding "*" (once trimmed) together with another entry
WildcardMixed(list) ==
    /\ \E i \in 1..Len(list) : ToLower(TrimSpace(list[i])) = Star
    /\ \E i \in 1..Len(list) : ToLower(TrimSpace(list[i])) # Star

\* C9 (Rule A): when the given AllowOrigins normalizes to exactly ["*"], also
\* for [" * "] and ["*", "*"], Middleware() sets allowAllOrigins when no
\* predicate is given, and panics when AllowOriginFunc is given too.
C9_RuleA ==
    (handler # "none" /\ WildcardOnly(given.AllowOrigins)) =>
      /\ c.AllowOrigins = <<Star>>
      /\ IF given.AllowOriginFunc.isNil
         THEN handler = "ready" /\ c.allowAllOrigins /\ panicMsg = ""
         ELSE handler = "panic" /\ panicMsg = PanicPredicate

\* C9 witness: [" * ", "*"] without predicate was accepted as allow-all.
C9_Witness ==
    /\ handler = "ready" /\ c.allowAllOrigins
    /\ given.AllowOrigins = <<OStarSp, Star>> /\ given.AllowOriginFunc.isNil

\* C10 (wildcard exclusivity): a list whose normalized form holds "*" together
\* with another entry, in any order, with or without predicate, always fails
\* the validation, and no handler is produced.
C10_WildcardExclusive ==
    WildcardMixed(given.AllowOrigins) =>
      /\ handler # "ready"
      /\ pc = "idle"
      /\ handler # "none" => (handler = "panic" /\ panicMsg \in {PanicMixed, PanicPrefix})

\* C10 witness: ["*", "http://a"] with a predicate panicked.
C10_Witness ==
    /\ given.AllowOrigins = <<Star, OHttpA>> /\ ~given.AllowOriginFunc.isNil
    /\ handler = "panic" /\ panicMsg = PanicMixed

-----------------------------------------------------------------------------
(* Validation alone: Middleware() over a wider choice of origin lists *)

OHTTPASp == <<" ", "H", "T", "T", "P", ":", "/", "/", "A", " ">>

ValidateOriginStrs == OriginStrs \cup {OBare, OHTTPASp}

ValidateOriginLists == UNION {[1..n -> ValidateOriginStrs] : n \in 0..MaxOrigins}

ConfigsValidate(variant) ==
    {[Cors(variant) EXCEPT !.AllowOrigins = o, !.AllowOriginFunc = f] :
        o \in ValidateOriginLists, f \in OriginFuncs}

InitValidate ==
    /\ impl \in Variants
    /\ CorsStart(ConfigsValidate(impl))
    /\ nz = NzIdle
    /\ reqs = ReqsIdle
    /\ OthersIdle
    /\ jwt = JwtIdle

NextValidate == Middleware

SpecValidate == InitValidate /\ [][NextValidate]_vars

\* the entry, trimmed and lower-cased, starts with 'http://' or 'https://'
HasScheme(entry) ==
    LET e == ToLower(TrimSpace(entry))
    IN HasPrefix(e, HttpPfx) \/ HasPrefix(e, HttpsPfx)

\* C11 (scheme requirement): when the given AllowOrigins is non-empty and does
\* not normalize to ["*"], Middleware() succeeds exactly when every entry,
\* trimmed and lower-cased, starts with 'http://' or 'https://'; one entry
\* without it ('ftp://a', 'a') fails the validation whatever the other entries
\* and the predicate; ' HTTP://A ' is accepted.
C11_SchemeRequired ==
    (handler # "none" /\ Len(given.AllowOrigins) > 0
        /\ ~WildcardOnly(given.AllowOrigins)) =>
      /\ handler = "ready" <=>
            \A i \in 1..Len(given.AllowOrigins) : HasScheme(given.AllowOrigins[i])
      /\ handler = "panic" <=>
            \E i \in 1..Len(given.AllowOrigins) : ~HasScheme(given.AllowOrigins[i])
      /\ handler = "panic" => panicMsg \in {PanicMixed, PanicPrefix}
      /\ (\E i \in 1..Len(given.AllowOrigins) :
             given.AllowOrigins[i] \in {OFtpA, OBare}) => handler = "panic"

\* C11 witness: [' HTTP://A ', 'https://a'] was accepted.
C11_Witness ==
    /\ handler = "ready"
    /\ given.AllowOrigins = <<OHTTPASp, OHttpsA>>
    /\ c.AllowOrigins = <<OHttpA, OHttpsA>>

-----------------------------------------------------------------------------
(* The three rules of the validation *)

RuleA(list) == WildcardOnly(list)
RuleB(list) == Len(list) > 0 /\ ~WildcardOnly(list)
RuleC(list) == Len(list) = 0

\* C12 (Rule C): with AllowOrigins nil or empty, Middleware() panics when no
\* predicate is given, and succeeds with allowAllOrigins false when one is
\* given; the predicate alone then decides every request origin.  Exactly one
\* of the rules A, B, C applies to a configuration: each panic belongs to one
\* rule, and the flag is set under rule A only.
C12_RuleC ==
    handler # "none" =>
      /\ RuleC(given.AllowOrigins) =>
            IF given.AllowOriginFunc.isNil
            THEN handler = "panic" /\ panicMsg = PanicNoOrigin /\ pc = "idle"
            ELSE /\ handler = "ready" /\ ~c.allowAllOrigins /\ c.AllowOrigins = <<>>
                 /\ \A o \in ReqOrigins :
                       validateOrigin(c, o) <=> o \in given.AllowOriginFunc.accepts
                 /\ CorsRequest =>
                       ((ctx.status = 403 /\ ctx.aborted)
                           <=> ctx.Origin \notin given.AllowOriginFunc.accepts)
      /\ Cardinality({r \in {"A", "B", "C"} :
                         \/ r = "A" /\ RuleA(given.AllowOrigins)
                         \/ r = "B" /\ RuleB(given.AllowOrigins)
                         \/ r = "C" /\ RuleC(given.AllowOrigins)}) = 1
      /\ panicMsg = PanicPredicate => RuleA(given.AllowOrigins)
      /\ panicMsg \in {PanicMixed, PanicPrefix} => RuleB(given.AllowOrigins)
      /\ panicMsg = PanicNoOrigin => RuleC(given.AllowOrigins)
      /\ c.allowAllOrigins <=> RuleA(given.AllowOrigins)

\* C12 witness: no list, a predicate: 'http://c' was admitted by it.
C12_Witness ==
    /\ CorsRequest /\ pc = "done"
    /\ given.AllowOrigins = <<>> /\ ~given.AllowOriginFunc.isNil
    /\ ctx.Origin = OHttpC /\ ctx.status = 200 /\ trace.predCalls = <<OHttpC>>

-----------------------------------------------------------------------------
(* The header sets alone: Middleware() over a wider choice of header fields *)

\* lists of the tests (cors_test.go:127, 162, 171, 212-214, 266-268)
ExposeXUser   == <<<<"X", "-", "u", "s", "e", "r">>,
      <<"x", "P", "a", "s", "s", "w", "o", "r", "d">>>>
ExposeData    == <<<<"D", "a", "t", "a">>,
      <<"x", "-", "U", "s", "e", "r">>,
      <<"d", "a", "t", "a", " ">>>>
MethodsMixed  == <<<<" ", "G", "e", "T", " ">>,
      <<"g", "e", "t">>,
      <<"p", "o", "s", "t">>,
      <<"P", "U", "T", " ", " ">>,
      <<"H", "e", "a", "d">>,
      <<"P", "O", "S", "T">>>>
HeadersMixed  == <<<<"C", "o", "n", "t", "e", "n", "t", "-", "t", "y", "p", "e">>,
      <<"t", "i", "m", "e", "S", "t", "a", "m", "p", " ">>>>
HeadersXUser  == <<<<"X", "-", "u", "s", "e", "r">>,
      <<"C", "o", "n", "t", "e", "n", "t", "-", "T", "y", "p", "e">>,
      <<"x", "-", "U", "S", "E", "R">>>>

ExposeChoicesH == {<<>>, ExposeXUser, ExposeData}
MethodChoicesH(variant) == {<<>>, Cors(variant).AllowMethods, MethodsMixed}
HeaderChoicesH(variant) == {<<>>, Cors(variant).AllowHeaders, HeadersMixed, HeadersXUser}
MaxAgeChoicesH == {0, 0 - Second, 1500, 10 * Hour, 12 * Hour}
OriginListsH == {<<>>, <<Star>>, <<OHttpA>>}

ConfigsHeaders(variant) ==
    {[Cors(variant) EXCEPT !.AllowOrigins = o, !.AllowOriginFunc = f,
                           !.AllowCredentials = cr, !.ExposeHeaders = e,
                           !.AllowMethods = m, !.AllowHeaders = hh, !.MaxAge = a] :
        o \in OriginListsH, f \in OriginFuncs, cr \in BOOLEAN, e \in ExposeChoicesH,
        m \in MethodChoicesH(variant), hh \in HeaderChoicesH(variant),
        a \in MaxAgeChoicesH}

InitHeaders ==
    /\ impl \in Variants
    /\ CorsStart(ConfigsHeaders(impl))
    /\ nz = NzIdle
    /\ reqs = ReqsIdle
    /\ OthersIdle
    /\ jwt = JwtIdle

NextHeaders == Middleware

SpecHeaders == InitHeaders /\ [][NextHeaders]_vars

\* The header values the claims state for the lists above.
Txt_XUserXpassword == <<"X", "-", "U", "s", "e", "r", ",", "X", "p", "a", "s", "s", "w", "o", "r", "d">>
Txt_DataXUser      == <<"D", "a", "t", "a", ",", "X", "-", "U", "s", "e", "r">>
Txt_GetPostPutHead == <<"G", "E", "T", ",", "P", "O", "S", "T", ",", "P", "U", "T", ",", "H", "E", "A", "D">>
Txt_GetPostHead    == <<"G", "E", "T", ",", "P", "O", "S", "T", ",", "H", "E", "A", "D">>
Txt_CtTimestamp    == <<"C", "o", "n", "t", "e", "n", "t", "-", "T", "y", "p", "e", ",", "T", "i", "m", "e", "s", "t", "a", "m", "p">>
Txt_XUserCt        == <<"X", "-", "U", "s", "e", "r", ",", "C", "o", "n", "t", "e", "n", "t", "-", "T", "y", "p", "e">>
Txt_OriginClCt     == <<"O", "r", "i", "g", "i", "n", ",", "C", "o", "n", "t", "e", "n", "t", "-", "L", "e", "n", "g", "t", "h", ",", "C", "o", "n", "t", "e", "n", "t", "-", "T", "y", "p", "e">>
Txt_OriginAcceptCt == <<"O", "r", "i", "g", "i", "n", ",", "A", "c", "c", "e", "p", "t", ",", "C", "o", "n", "t", "e", "n", "t", "-", "T", "y", "p", "e">>
Txt_43200          == <<"4", "3", "2", "0", "0">>
Txt_36000          == <<"3", "6", "0", "0", "0">>
Txt_1              == <<"1">>

\* the stated Access-Control-Expose-Headers values, <<>> meaning no such key
StatedExpose(list) ==
    IF list = <<>> THEN <<>>
    ELSE IF list = ExposeXUser THEN <<Txt_XUserXpassword>>
    ELSE <<Txt_DataXUser>>

\* the stated Access-Control-Allow-Methods values
StatedMethods(list) ==
    IF list = <<>> THEN <<>>
    ELSE IF list = CorsDefaultB.AllowMethods THEN <<Txt_GetPostHead>>
    ELSE <<Txt_GetPostPutHead>>

\* the stated Access-Control-Allow-Headers values
StatedHeaders(list) ==
    IF list = <<>> THEN <<>>
    ELSE IF list = CorsDefaultA.AllowHeaders THEN <<Txt_OriginClCt>>
    ELSE IF list = CorsDefaultB.AllowHeaders THEN <<Txt_OriginAcceptCt>>
    ELSE IF list = HeadersMixed THEN <<Txt_CtTimestamp>>
    ELSE <<Txt_XUserCt>>

\* the header map C13 states for a cors object
StatedNormal(cc) ==
    [k \in HeaderKeys |->
        IF k = ACACredentials THEN (IF cc.AllowCredentials THEN <<StrTrue>> ELSE <<>>)
        ELSE IF k = ACExposeHdrs THEN StatedExpose(cc.ExposeHeaders)
        ELSE IF k = ACAOrigin THEN (IF cc.allowAllOrigins THEN <<Star>> ELSE <<>>)
        ELSE IF k = Vary THEN (IF cc.allowAllOrigins THEN <<>> ELSE <<StrOrigin>>)
        ELSE <<>>]

\* C13: generateNormalHeaders returns exactly: Allow-Credentials 'true' iff
\* AllowCredentials; Expose-Headers iff ExposeHeaders is non-empty, its value
\* the normalized entries in canonical capitalization joined by ','
\* (['X-user','xPassword'] gives 'X-User,Xpassword'); Allow-Origin '*' and no
\* Vary if allowAllOrigins, else a single 'Vary: Origin' and no Allow-Origin;
\* no other key.  The set Middleware() stores is that map.
C13_NormalHeaders ==
    /\ generateNormalHeaders(c) = StatedNormal(c)
    /\ handler = "ready" => c.normalHeaders = StatedNormal(c)

\* C13 witness: a specific-origin policy with credentials and exposed headers.
C13_Witness ==
    /\ handler = "ready" /\ ~c.allowAllOrigins /\ c.AllowCredentials
    /\ c.ExposeHeaders = ExposeXUser
    /\ c.normalHeaders[ACExposeHdrs] = <<Txt_XUserXpassword>>
    /\ c.normalHeaders[Vary] = <<StrOrigin>>

\* the header map C14 states for a cors object, Max-Age left to its presence
StatedPreflight(cc, h) ==
    /\ h[ACACredentials] = (IF cc.AllowCredentials THEN <<StrTrue>> ELSE <<>>)
    /\ h[ACAMethods] = StatedMethods(cc.AllowMethods)
    /\ h[ACAHeaders] = StatedHeaders(cc.AllowHeaders)
    /\ h[ACMaxAge] # <<>> <=> cc.MaxAge > 0
    /\ h[ACAOrigin] = (IF cc.allowAllOrigins THEN <<Star>> ELSE <<>>)
    /\ h[Vary] = (IF cc.allowAllOrigins THEN <<>>
                  ELSE <<StrOrigin, StrACRequestMethod, StrACRequestHeaders>>)
    /\ h[ACExposeHdrs] = <<>>

\* C14: generatePreflightHeaders returns exactly: Allow-Credentials 'true' iff
\* AllowCredentials; Allow-Methods iff AllowMethods is non-empty, each distinct
\* (trimmed, case-insensitive) method once, upper-cased, in first-seen order,
\* joined by ','; Allow-Headers likewise in canonical capitalization; Max-Age
\* iff MaxAge > 0; Allow-Origin '*' and no Vary if allowAllOrigins, else Vary
\* with the three values Origin, Access-Control-Request-Method,
\* Access-Control-Request-Headers in that order; never Expose-Headers.
C14_PreflightHeaders ==
    /\ StatedPreflight(c, generatePreflightHeaders(c))
    /\ handler = "ready" => StatedPreflight(c, c.preflightHeaders)

\* C14 witness: mixed-case methods and headers of a specific-origin policy.
C14_Witness ==
    /\ handler = "ready" /\ ~c.allowAllOrigins
    /\ c.AllowMethods = MethodsMixed /\ c.AllowHeaders = HeadersMixed
    /\ c.preflightHeaders[ACAMethods] = <<Txt_GetPostPutHead>>
    /\ c.preflightHeaders[ACAHeaders] = <<Txt_CtTimestamp>>
    /\ Len(c.preflightHeaders[Vary]) = 3

\* C15: the preflight set holds Access-Control-Max-Age exactly when MaxAge > 0,
\* and its value is the whole number of seconds of MaxAge in decimal
\* (12h gives "43200", 10h gives "36000"); MaxAge = 0 omits it.
C15_MaxAge ==
    LET h == generatePreflightHeaders(c)
    IN /\ h[ACMaxAge] # <<>> <=> c.MaxAge > 0
       /\ c.MaxAge = 0 => h[ACMaxAge] = <<>>
       /\ c.MaxAge = 12 * Hour => h[ACMaxAge] = <<Txt_43200>>
       /\ c.MaxAge = 10 * Hour => h[ACMaxAge] = <<Txt_36000>>
       /\ c.MaxAge = 1500 => h[ACMaxAge] = <<Txt_1>>
       /\ handler = "ready" => c.preflightHeaders[ACMaxAge] = h[ACMaxAge]

\* C15 witness: a policy built with MaxAge = 10h.
C15_Witness ==
    /\ handler = "ready" /\ c.MaxAge = 10 * Hour
    /\ c.preflightHeaders[ACMaxAge] = <<Txt_36000>>

\* ---------------------------------------------------------------------------
\* normalizeStrs and convert on slices, where nil and empty are told apart
\* ---------------------------------------------------------------------------

MaxLen == 3

\* a []string: the nil slice, or a slice with elements
NilSlice     == [isNil |-> TRUE, elems |-> <<>>]
Slice(elems) == [isNil |-> FALSE, elems |-> elems]

\* what a loop leaves in `var x []string` after appending elems one by one
Appended(elems) == [isNil |-> elems = <<>>, elems |-> elems]

\* normalizeStrs as it would be with `normalized := []string{}`
normalizeSliceEmptyNotNil(sl) ==
    IF sl.isNil THEN NilSlice ELSE Slice(normalizeStrs(sl.elems))

\* func (c *cors) normalizeStrs(strs []string) []string, on slices
normalizeSlice(sl) ==
    IF sl.isNil THEN NilSlice ELSE Appended(normalizeStrs(sl.elems))

\* func (c *cors) convert(strs, f), on slices
convertSliceToUpper(sl)   == Appended(convertToUpper(sl.elems))
convertSliceCanonical(sl) == Appended(convertCanonical(sl.elems))

\* the three normalizations of the policy lists: origins in Middleware(),
\* methods and headers in generatePreflightHeaders()
NzKinds == {"origins", "methods", "headers"}

applyKind(kind, sl) ==
    CASE kind = "origins" -> normalizeSlice(sl)
      [] kind = "methods" -> convertSliceToUpper(normalizeSlice(sl))
      [] kind = "headers" -> convertSliceCanonical(normalizeSlice(sl))

SeqsUpTo(S, n) == UNION {[1..k -> S] : k \in 0..n}

NzStrs == {<<>>, <<"a">>, <<"A">>, <<" ", "a">>, <<"b", " ">>}

\* the list of TestCorsNormalize
Txt_httpAccessSp == <<"h", "t", "t", "p", "-", "A", "c", "c", "e", "s", "s", " ">>
Txt_HTTPAccess   == <<"H", "T", "T", "P", "-", "A", "c", "c", "e", "s", "s">>
Txt_Post         == <<"P", "o", "s", "t">>
Txt_POST         == <<"P", "O", "S", "T">>
Txt_SpPoStSp     == <<" ", "p", "o", "S", "t", " ", " ">>
TestList == <<Txt_httpAccessSp, Txt_Post, Txt_POST, Txt_SpPoStSp, Txt_HTTPAccess, <<>> >>

NzArgs == {NilSlice, Slice(TestList)} \cup {Slice(xs) : xs \in SeqsUpTo(NzStrs, MaxLen)}

NzStart(kind, sl) ==
    [pc |-> "start", kind |-> kind, orig |-> sl, arg |-> sl,
     res |-> NilSlice, res2 |-> NilSlice]

\* Either a list is about to be normalized, or a policy is about to be
\* initialised by Middleware().
InitNormalize ==
    /\ reqs = ReqsIdle
    /\ OthersIdle
    /\ jwt = JwtIdle
    /\ \/ /\ impl = "Middleware"
          /\ CorsStart({Cors(impl)})
          /\ \E kind \in NzKinds, sl \in NzArgs : nz = NzStart(kind, sl)
       \/ /\ impl \in Variants
          /\ CorsStart(ConfigsHeaders(impl))
          /\ nz = NzIdle

\* the first call on the list; the loop variable is a copy, the argument
\* is not assigned
NzNormalize ==
    /\ nz.pc = "start"
    /\ nz' = [nz EXCEPT !.pc = "once", !.res = applyKind(nz.kind, nz.arg)]
    /\ UNCHANGED corsVars
    /\ UNCHANGED <<reqs, jwt, tok, cache, sess, fav>>

\* the same call on its own result
NzAgain ==
    /\ nz.pc = "once"
    /\ nz' = [nz EXCEPT !.pc = "twice", !.res2 = applyKind(nz.kind, nz.res)]
    /\ UNCHANGED corsVars
    /\ UNCHANGED <<reqs, jwt, tok, cache, sess, fav>>

NextNormalize == NzNormalize \/ NzAgain \/ Middleware

SpecNormalize == InitNormalize /\ [][NextNormalize]_vars

\* The elements trimmed and lower-cased, position by position
Cleaned(xs) == [i \in 1..Len(xs) |-> ToLower(TrimSpace(xs[i]))]

\* The elements of m from position i on that do not occur at an earlier position
RECURSIVE FirstSeenFrom(_, _)
FirstSeenFrom(m, i) ==
    IF i > Len(m) THEN <<>>
    ELSE (IF \A j \in 1..(i - 1) : m[j] # m[i] THEN <<m[i]>> ELSE <<>>)
         \o FirstSeenFrom(m, i + 1)

Txt_httpaccess == <<"h", "t", "t", "p", "-", "a", "c", "c", "e", "s", "s">>
Txt_post       == <<"p", "o", "s", "t">>

\* C16: normalizeStrs yields the trimmed, lower-cased elements with later
\* duplicates removed in first-seen order, the empty string kept like any
\* other element; the list of the test yields ["http-access", "post", ""];
\* nil and the empty list both yield nil; the input list is not modified.
C16_Normalize ==
    (nz.pc \in {"once", "twice"} /\ nz.kind = "origins") =>
        /\ nz.res.elems = FirstSeenFrom(Cleaned(nz.orig.elems), 1)
        /\ (nz.orig.elems = <<>> <=> nz.res.isNil)
        /\ (<<>> \in Range(Cleaned(nz.orig.elems)) => <<>> \in Range(nz.res.elems))
        /\ (nz.orig = Slice(TestList)
                => nz.res = Slice(<<Txt_httpaccess, Txt_post, <<>> >>))
        /\ nz.arg = nz.orig

C16_Witness ==
    /\ nz.pc = "once" /\ nz.kind = "origins"
    /\ nz.orig = Slice(TestList)
    /\ Len(nz.res.elems) = 3

\* C17: normalizing an already normalized list changes nothing, for the
\* origin, the method and the header normalization alike; so Middleware()
\* called again on an unchanged policy leaves the allowed origins and both
\* precomputed header sets as they are.
C17_Idempotent ==
    /\ nz.pc = "twice" => nz.res2 = nz.res
    /\ handler = "ready" => initialise(c) = [c |-> c, panic |-> ""]

C17_Witness ==
    /\ nz.pc = "twice" /\ nz.kind = "headers"
    /\ nz.res.elems # nz.orig.elems
    /\ Len(nz.res.elems) = 2

\* ---------------------------------------------------------------------------
\* The constructor's defaults
\* ---------------------------------------------------------------------------

Txt_GET          == <<"G", "E", "T">>
Txt_HEAD         == <<"H", "E", "A", "D">>
Txt_Origin       == <<"O", "r", "i", "g", "i", "n">>
Txt_Accept       == <<"A", "c", "c", "e", "p", "t">>
Txt_ContentType  == <<"C", "o", "n", "t", "e", "n", "t", "-", "T", "y", "p", "e">>

\* C18: the object returned by the constructor has AllowOrigins = ["*"],
\* AllowMethods = ["GET", "POST", "HEAD"], AllowHeaders = ["Origin", "Accept",
\* "Content-Type"], AllowCredentials = false and no ExposeHeaders.
C18_DefaultConfig ==
    LET d == Cors(impl)
    IN /\ d.AllowOrigins = <<Star>>
       /\ d.AllowMethods = <<Txt_GET, Txt_POST, Txt_HEAD>>
       /\ d.AllowHeaders = <<Txt_Origin, Txt_Accept, Txt_ContentType>>
       /\ d.AllowCredentials = FALSE
       /\ d.ExposeHeaders = <<>>

\* ---------------------------------------------------------------------------
\* Concurrent requests on one policy
\* ---------------------------------------------------------------------------

MaxReqs == 2

\* the policy as it would be left by a validateOrigin that remembers the
\* origins its predicate accepted
policyAfterValidateCaching(cc, origin) ==
    IF callsAllowOriginFunc(cc, origin) /\ validateOrigin(cc, origin)
    THEN [cc EXCEPT !.AllowOrigins = Append(@, origin)]
    ELSE cc

\* the policy after validateOrigin(origin) ran: the function assigns to no
\* field of c
policyAfterValidate(cc, origin) == cc

ConcOriginLists == {<<Star>>, <<OHttpA>>}
ConcReqOrigins  == {<<>>, OHttpA, OHttpC}
ConcMethods     == {"GET", "OPTIONS"}

ConfigsConc(variant) ==
    {[Cors(variant) EXCEPT !.AllowOrigins = o, !.AllowOriginFunc = f,
                           !.AllowCredentials = cr] :
        o \in ConcOriginLists, f \in OriginFuncs, cr \in BOOLEAN}

InitConc ==
    /\ impl \in Variants
    /\ CorsStart(ConfigsConc(impl))
    /\ nz = NzIdle
    /\ reqs = ReqsIdle
    /\ OthersIdle
    /\ jwt = JwtIdle

\* the server starts a goroutine for a request: it enters the handler
Arrive(method, origin) ==
    /\ handler = "ready"
    /\ Len(reqs) < MaxReqs
    /\ reqs' = Append(reqs, [pc |-> "validate", x |-> NewContext(method, origin),
                             nextCalls |-> 0])
    /\ UNCHANGED corsVars
    /\ UNCHANGED <<nz, jwt, tok, cache, sess, fav>>

\* origin := ...Get("Origin"); the two early returns
RqValidate(i) ==
    /\ i <= Len(reqs) /\ reqs[i].pc = "validate"
    /\ LET x == reqs[i].x
       IN IF Len(x.Origin) = 0
          THEN /\ reqs' = [reqs EXCEPT ![i].pc = "returned"]
               /\ c' = c
          ELSE /\ reqs' = IF ~validateOrigin(c, x.Origin)
                          THEN [reqs EXCEPT ![i].x = AbortWithStatus(x, 403),
                                            ![i].pc = "returned"]
                          ELSE [reqs EXCEPT ![i].pc = "headers"]
               /\ c' = policyAfterValidate(c, x.Origin)
    /\ UNCHANGED <<impl, given, handler, panicMsg, pc, ctx, trace, nz, jwt,
                   tok, cache, sess, fav>>

\* the loop over c.preflightHeaders or c.normalHeaders
RqHeaders(i) ==
    /\ i <= Len(reqs) /\ reqs[i].pc = "headers"
    /\ reqs' = [reqs EXCEPT ![i].x = writePrecomputed(c, @), ![i].pc = "echo"]
    /\ UNCHANGED corsVars
    /\ UNCHANGED <<nz, jwt, tok, cache, sess, fav>>

\* the echo step, then the return (src/cors.go) or ctx.Next() (part_000)
RqEcho(i) ==
    /\ i <= Len(reqs) /\ reqs[i].pc = "echo"
    /\ reqs' = IF impl = "CorsMiddleware"
               THEN [reqs EXCEPT ![i].x = runDeferred(echoOrigin(c, @)),
                                 ![i].pc = "returned"]
               ELSE [reqs EXCEPT ![i].x = echoOrigin(c, @), ![i].pc = "inNext"]
    /\ UNCHANGED corsVars
    /\ UNCHANGED <<nz, jwt, tok, cache, sess, fav>>

\* c.Text(200, <method>) of the route handler
served(x) == [x EXCEPT !.status = 200, !.body = x.Method]

\* the next handler of the request's pipeline
RqNextHandler(i) ==
    /\ i <= Len(reqs)
    /\ \/ reqs[i].pc = "returned" /\ ~reqs[i].x.aborted
       \/ reqs[i].pc = "inNext"
    /\ reqs' = [reqs EXCEPT ![i].x = served(@),
                            ![i].nextCalls = @ + 1,
                            ![i].pc = IF @ = "inNext" THEN "nextReturned" ELSE "done"]
    /\ UNCHANGED corsVars
    /\ UNCHANGED <<nz, jwt, tok, cache, sess, fav>>

\* ctx.Next() returned: the deferred abort runs
RqHandlerReturn(i) ==
    /\ i <= Len(reqs) /\ reqs[i].pc = "nextReturned"
    /\ reqs' = [reqs EXCEPT ![i].x = runDeferred(@), ![i].pc = "done"]
    /\ UNCHANGED corsVars
    /\ UNCHANGED <<nz, jwt, tok, cache, sess, fav>>

\* the middleware aborted: no further handler for this request
RqPipelineEnd(i) ==
    /\ i <= Len(reqs) /\ reqs[i].pc = "returned" /\ reqs[i].x.aborted
    /\ reqs' = [reqs EXCEPT ![i].pc = "done"]
    /\ UNCHANGED corsVars
    /\ UNCHANGED <<nz, jwt, tok, cache, sess, fav>>

NextConc ==
    \/ Middleware
    \/ \E method \in ConcMethods, origin \in ConcReqOrigins : Arrive(method, origin)
    \/ \E i \in 1..MaxReqs : RqValidate(i)
    \/ \E i \in 1..MaxReqs : RqHeaders(i)
    \/ \E i \in 1..MaxReqs : RqEcho(i)
    \/ \E i \in 1..MaxReqs : RqNextHandler(i)
    \/ \E i \in 1..MaxReqs : RqHandlerReturn(i)
    \/ \E i \in 1..MaxReqs : RqPipelineEnd(i)

SpecConc == InitConc /\ [][NextConc]_vars

\* The finished request handled alone on the policy cc: its context and the
\* number of calls of the next handler
Alone(cc, variant, x0) ==
    LET x1 == evaluate(cc, x0)
        ok == passes(cc, x0)
    IN IF variant = "Middleware" /\ ok
       THEN [x |-> runDeferred(served(x1)), nextCalls |-> 1]
       ELSE LET x2 == IF ok THEN runDeferred(x1) ELSE x1
            IN IF x2.aborted THEN [x |-> x2, nextCalls |-> 0]
               ELSE [x |-> served(x2), nextCalls |-> 1]

\* C19: handling requests writes no field of the policy, and every finished
\* request, whatever ran in between, has the status, the response headers
\* and the forwarding it has when handled alone on the initialised policy.
C19_ReadOnlyPolicy ==
    /\ [][handler = "ready" => c' = c]_vars
    /\ [](\A i \in 1..Len(reqs) :
             reqs[i].pc = "done" =>
                LET a == Alone(c, impl, NewContext(reqs[i].x.Method, reqs[i].x.Origin))
                IN /\ reqs[i].x.status = a.x.status
                   /\ reqs[i].x.Header = a.x.Header
                   /\ reqs[i].x.aborted = a.x.aborted
                   /\ reqs[i].nextCalls = a.nextCalls)

C19_Witness ==
    /\ Len(reqs) = 2
    /\ reqs[1].pc = "headers"
    /\ reqs[2].pc = "done" /\ reqs[2].nextCalls = 1
    /\ reqs[2].x.Header[ACAOrigin] = <<reqs[2].x.Origin>>

\* ---------------------------------------------------------------------------
\* jwt.go: the JWT middleware
\* ---------------------------------------------------------------------------

\* strings.Split(s, sep) for a one-character separator
RECURSIVE SplitFrom(_, _, _)
SplitFrom(s, sep, cur) ==
    IF s = <<>> THEN <<cur>>
    ELSE IF Head(s) = sep THEN <<cur>> \o SplitFrom(Tail(s), sep, <<>>)
    ELSE SplitFrom(Tail(s), sep, Append(cur, Head(s)))

Split(s, sep) == SplitFrom(s, sep, <<>>)

Txt_header   == <<"h", "e", "a", "d", "e", "r">>
Txt_query    == <<"q", "u", "e", "r", "y">>
Txt_cookie   == <<"c", "o", "o", "k", "i", "e">>
Txt_Authorization == <<"A", "u", "t", "h", "o", "r", "i", "z", "a", "t", "i", "o", "n">>
Txt_t        == <<"t">>
Txt_Bearer   == <<"B", "e", "a", "r", "e", "r">>
Txt_JWTRealm == <<"J", "W", "T", " ", "r", "e", "a", "l", "m", "=">>
Colon        == <<":">>

\* A token string: the text of the JWT is a blob (it holds no space); what
\* jwt.Parse finds in it is recorded in the blob.
NoBlob  == [present |-> FALSE, wellFormed |-> FALSE, alg |-> "", key |-> "",
            expired |-> FALSE, id |-> ""]
Garbage == [NoBlob EXCEPT !.present = TRUE]
Token(alg, key, expired, id) ==
    [present |-> TRUE, wellFormed |-> TRUE, alg |-> alg, key |-> key,
     expired |-> expired, id |-> id]

\* the "id" claim is missing or not a string
NoId == "<none>"

Blobs == {NoBlob, Garbage,
          Token("HS256", "k1", FALSE, "alice"), Token("HS256", "k1", FALSE, "bob"),
          Token("HS256", "k1", FALSE, NoId),    Token("HS384", "k1", FALSE, "alice"),
          Token("HS256", "k2", FALSE, "alice"), Token("HS256", "k1", TRUE, "alice")}

\* text in front of the blob in the header, query parameter or cookie
Pres == {<<>>, Txt_Bearer \o <<" ">>, Txt_Bearer, ToLower(Txt_Bearer) \o <<" ">>,
         Txt_Bearer \o <<" ", " ">>}

\* a value: text followed by a blob
Value(pre, blob) == [pre |-> pre, blob |-> blob]
ValueLen(v)      == Len(v.pre) + (IF v.blob.present THEN 1 ELSE 0)
EmptyValue       == Value(<<>>, NoBlob)

\* A request carries one value, in a header, a query parameter or a cookie
JwtRequests ==
    {[src |-> s, name |-> n, value |-> Value(p, b)] :
        s \in {Txt_header, Txt_query, Txt_cookie}, n \in {Txt_Authorization, Txt_t},
        p \in Pres, b \in Blobs}

\* c.Request.Header.Get(key), c.Query(key), c.Cookie(key)
Lookup(req, src, key) ==
    IF req.src = src /\ req.name = key THEN req.value ELSE EmptyValue

\* strings.SplitN(v, " ", 2) of a value whose blob holds no space
SplitN2(v) ==
    IF \E i \in 1..Len(v.pre) : v.pre[i] = " "
    THEN LET i == CHOOSE k \in 1..Len(v.pre) :
                     v.pre[k] = " " /\ \A m \in 1..(k - 1) : v.pre[m] # " "
         IN <<Value(SubSeq(v.pre, 1, i - 1), NoBlob),
              Value(SubSeq(v.pre, i + 1, Len(v.pre)), v.blob)>>
    ELSE <<v>>

\* the JWT object the user builds
NilAuthorize      == [isNil |-> TRUE, accepts |-> {}]
AuthorizeOf(S)    == [isNil |-> FALSE, accepts |-> S]
JwtUsers          == {"alice", "bob"}

JwtConfigs ==
    {[Realm |-> r, SigningAlgorithm |-> a, Key |-> k, Timeout |-> 0,
      AuthenticateNil |-> an, Authorize |-> az, TokenBearer |-> tb,
      PayloadKey |-> "", source |-> <<>>, key |-> <<>>] :
        r \in {<<>>, <<"a", "p", "i">>}, a \in {"", "HS384"}, k \in {"", "k1"},
        an \in BOOLEAN, az \in {NilAuthorize, AuthorizeOf({"alice"})},
        tb \in {<<>>, Txt_header \o Colon \o Txt_Authorization,
                Txt_query \o Colon \o Txt_t, Txt_cookie \o Colon \o Txt_t,
                <<"f", "o", "r", "m">> \o Colon \o Txt_t, Txt_header}}

\* func (j *JWT) init(): the object it leaves and the panic message
init(j) ==
    LET j1 == [j EXCEPT !.SigningAlgorithm = IF @ = "" THEN "HS256" ELSE @]
        j2 == [j1 EXCEPT !.Timeout = IF @ = 0 THEN Hour ELSE @]
        j3 == [j2 EXCEPT !.Authorize = IF @.isNil THEN AuthorizeOf(JwtUsers \cup {NoId})
                                       ELSE @]
        j4 == [j3 EXCEPT !.TokenBearer = IF @ = <<>>
                                         THEN Txt_header \o Colon \o Txt_Authorization
                                         ELSE @]
        parts == Split(j4.TokenBearer, ":")
    IN IF j.Key = "" THEN [j |-> j1, panic |-> "Secret key is required"]
       ELSE IF j.AuthenticateNil
            THEN [j |-> j2, panic |-> "Authenticate funciton is required"]
       ELSE IF Len(parts) < 2 THEN [j |-> j4, panic |-> "index out of range"]
       ELSE IF parts[1] \notin {Txt_header, Txt_query, Txt_cookie}
            THEN [j |-> j4, panic |-> "Invalid token source"]
       ELSE [j |-> [j4 EXCEPT !.source = parts[1], !.key = parts[2],
                              !.PayloadKey = IF @ = "" THEN "JWT_PAYLOAD" ELSE @],
             panic |-> ""]

\* j.extractToken(c) for the three sources: the token string and the error
extractToken(j, req) ==
    LET v == Lookup(req, j.source, j.key)
    IN IF j.source = Txt_header
       THEN IF ValueLen(v) = 0 THEN [tok |-> EmptyValue, err |-> "empty auth header"]
            ELSE LET parts == SplitN2(v)
                 IN IF ~(Len(parts) = 2 /\ parts[1] = Value(Txt_Bearer, NoBlob))
                    THEN [tok |-> EmptyValue, err |-> "invalid auth header"]
                    ELSE [tok |-> parts[2], err |-> ""]
       ELSE IF ValueLen(v) = 0
            THEN [tok |-> EmptyValue,
                  err |-> IF j.source = Txt_query THEN "empty query token"
                          ELSE "empty cookie token"]
       ELSE [tok |-> v, err |-> ""]

\* jwt.Parse(tokenStr, keyFunc) with the key function of parseToken
Parse(j, tokenStr) ==
    IF tokenStr.pre # <<>> \/ ~tokenStr.blob.present \/ ~tokenStr.blob.wellFormed
    THEN "token contains an invalid number of segments"
    ELSE IF j.SigningAlgorithm # tokenStr.blob.alg THEN "invalid signing algorithm"
    ELSE IF j.Key # tokenStr.blob.key THEN "signature is invalid"
    ELSE IF tokenStr.blob.expired THEN "Token is expired"
    ELSE ""

\* func (j *JWT) parseToken(c): the token's claims and the error
parseToken(j, req) ==
    LET e == extractToken(j, req)
    IN IF e.err # "" THEN [claims |-> NoBlob, err |-> e.err]
       ELSE [claims |-> e.tok.blob, err |-> Parse(j, e.tok)]

\* the context of a request entering the JWT middleware
JwtContext(req) ==
    [req |-> req, status |-> 0, wwwAuthenticate |-> <<>>, aborted |-> FALSE,
     body |-> "", userID |-> "", payloadKey |-> "", payload |-> NoBlob]

\* func (mw *JWT) unauthorized(c, code, message), with the Unauthorized
\* function init() installs
unauthorized(j, x, code, message) ==
    [x EXCEPT !.wwwAuthenticate = Txt_JWTRealm \o j.Realm,
              !.aborted = TRUE,
              !.status = code,
              !.body = message]

\* The handler Middleware() returns, up to c.Next(): the context and where
\* the handler went ("next", "returned", or a panic of the type assertion)
jwtHandle(j, req) ==
    LET x0 == JwtContext(req)
        p  == parseToken(j, req)
    IN IF p.err # "" THEN [x |-> unauthorized(j, x0, 401, p.err), to |-> "returned"]
       ELSE IF p.claims.id = NoId THEN [x |-> x0, to |-> "panic"]
       ELSE LET x1 == [x0 EXCEPT !.payloadKey = j.PayloadKey,
                                 !.payload = p.claims,
                                 !.userID = p.claims.id]
            IN IF p.claims.id \notin j.Authorize.accepts
               THEN [x |-> unauthorized(j, x1, 403,
                                        "You don't have permission to access."),
                     to |-> "returned"]
               ELSE [x |-> x1, to |-> "next"]

JwtNew(j) == [pc |-> "new", j |-> j, x |-> JwtContext([src |-> Txt_header,
                                                      name |-> Txt_Authorization,
                                                      value |-> EmptyValue]),
              nextCalls |-> 0]

InitJWT ==
    /\ impl = "Middleware"
    /\ CorsStart({Cors(impl)})
    /\ nz = NzIdle
    /\ reqs = ReqsIdle
    /\ OthersIdle
    /\ \E j \in JwtConfigs : jwt = JwtNew(j)

\* func (j *JWT) Middleware() mel.Handler, up to the return of the handler
JWTMiddleware ==
    /\ jwt.pc = "new"
    /\ LET r == init(jwt.j)
       IN jwt' = [jwt EXCEPT !.j = r.j,
                             !.pc = IF r.panic # "" THEN "initPanic" ELSE "ready"]
    /\ UNCHANGED corsVars
    /\ UNCHANGED <<nz, reqs, tok, cache, sess, fav>>

\* a request runs the handler
JWTHandler(req) ==
    /\ jwt.pc \in {"ready", "done"}
    /\ LET r == jwtHandle(jwt.j, req)
       IN jwt' = [jwt EXCEPT !.x = r.x, !.nextCalls = 0,
                             !.pc = IF r.to = "next" THEN "inNext"
                                    ELSE IF r.to = "panic" THEN "panicked"
                                    ELSE "returned"]
    /\ UNCHANGED corsVars
    /\ UNCHANGED <<nz, reqs, tok, cache, sess, fav>>

\* c.Next(): the wrapped handler answers, then the handler returns
JWTNext ==
    /\ jwt.pc = "inNext"
    /\ jwt' = [jwt EXCEPT !.x = [@ EXCEPT !.status = 200, !.body = "ok"],
                          !.nextCalls = @ + 1,
                          !.pc = "done"]
    /\ UNCHANGED corsVars
    /\ UNCHANGED <<nz, reqs, tok, cache, sess, fav>>

\* the handler returned after c.Abort(): the wrapped handler is skipped
JWTPipelineEnd ==
    /\ jwt.pc = "returned" /\ jwt.x.aborted
    /\ jwt' = [jwt EXCEPT !.pc = "done"]
    /\ UNCHANGED corsVars
    /\ UNCHANGED <<nz, reqs, tok, cache, sess, fav>>

\* the panic of the type assertion unwinds the handler: nothing is written
\* to the response and no further handler runs
JWTPanic ==
    /\ jwt.pc = "panicked"
    /\ jwt' = [jwt EXCEPT !.pc = "done"]
    /\ UNCHANGED corsVars
    /\ UNCHANGED <<nz, reqs, tok, cache, sess, fav>>

NextJWT ==
    \/ JWTMiddleware
    \/ \E req \in JwtRequests : JWTHandler(req)
    \/ JWTNext
    \/ JWTPipelineEnd
    \/ JWTPanic

SpecJWT == InitJWT /\ [][NextJWT]_vars

\* The request at hand got through the three tests of the handler
JwtExtracted  == extractToken(jwt.j, jwt.x.req).err = ""
JwtValid      == JwtExtracted /\ Parse(jwt.j, extractToken(jwt.j, jwt.x.req).tok) = ""
JwtClaims     == extractToken(jwt.j, jwt.x.req).tok.blob
JwtAuthorized == JwtValid /\ JwtClaims.id \in jwt.j.Authorize.accepts

\* C20: the next handler runs only for a request whose token is extracted,
\* parses as valid under the configured algorithm and key, and is authorized,
\* and the context then holds the userID and the claims; every other request
\* (with a string "id" claim) gets status 401, a WWW-Authenticate header and
\* an aborted pipeline, and the next handler does not run.
C20_JWTMiddleware ==
    (jwt.pc \in {"inNext", "done"} /\ ~(JwtValid /\ JwtClaims.id = NoId)) =>
        /\ (jwt.pc = "inNext" \/ jwt.nextCalls > 0) =>
              /\ JwtAuthorized
              /\ jwt.x.userID = JwtClaims.id
              /\ jwt.x.payloadKey = jwt.j.PayloadKey /\ jwt.x.payload = JwtClaims
        /\ ~JwtAuthorized =>
              /\ jwt.x.status = 401
              /\ jwt.x.wwwAuthenticate = Txt_JWTRealm \o jwt.j.Realm
              /\ jwt.x.aborted
              /\ jwt.nextCalls = 0

\* ---------------------------------------------------------------------------
\* jwt.go: LoginHandler and RefreshHandler
\* ---------------------------------------------------------------------------

\* the clock advances in steps of half a second, MaxTicks steps at most
MaxTicks == 5
TickMs   == 500

\* time.Time.Unix() of a time given in milliseconds
Unix(ms) == ms \div Second

\* a numeric claim: its dynamic type and its value
Int64(v)   == [type |-> "int64", v |-> v]
Float64(v) == [type |-> "float64", v |-> v]

\* the claims of a token signed by SignedString and parsed again by
\* jwt.Parse: the JSON decoder yields every number as a float64
decodeClaims(cl) == [cl EXCEPT !.exp = Float64(@.v), !.iat = Float64(@.v)]

\* the Timeout and MaxRefresh the user assigns (0: left unset)
TokConfigs ==
    {[Timeout |-> t, MaxRefresh |-> m] :
        t \in {0, 2 * Second}, m \in {0, Second, 3 * TickMs}}

\* init(), the part the two handlers depend on
tokInit(j) == [j EXCEPT !.Timeout = IF @ = 0 THEN Hour ELSE @]

\* LoginHandler after a successful Authenticate: the claims of the token
loginClaims(j, userID, nowMs) ==
    [id |-> userID, exp |-> Int64(Unix(nowMs + j.Timeout)), iat |-> Int64(Unix(nowMs))]

\* claims.Valid() of jwt.Parse at the time of the request
claimsValid(cl, nowMs) == Unix(nowMs) <= cl.exp.v /\ Unix(nowMs) >= cl.iat.v

\* RefreshHandler as it would be with the assertion claims["iat"].(float64)
refreshFloat64(j, cl, nowMs) ==
    IF cl.iat.type # "float64" THEN [to |-> "panic", status |-> 0, msg |-> "", claims |-> cl]
    ELSE IF cl.iat.v < Unix(nowMs - j.MaxRefresh)
         THEN [to |-> "refused", status |-> 401, msg |-> "Token is expired", claims |-> cl]
    ELSE [to |-> "issued", status |-> 200, msg |-> "",
          claims |-> [cl EXCEPT !.exp = Int64(Unix(nowMs + j.Timeout))]]

\* func (j *JWT) RefreshHandler(c): where it ends, the status and message it
\* answers, and the claims of the token it signs
refresh(j, cl, nowMs) ==
    IF cl.iat.type # "int64" THEN [to |-> "panic", status |-> 0, msg |-> "", claims |-> cl]
    ELSE IF cl.iat.v < Unix(nowMs - j.MaxRefresh)
         THEN [to |-> "refused", status |-> 401, msg |-> "Token is expired", claims |-> cl]
    ELSE [to |-> "issued", status |-> 200, msg |-> "",
          claims |-> [cl EXCEPT !.exp = Int64(Unix(nowMs + j.Timeout))]]

NoClaims == [id |-> "", exp |-> Int64(0), iat |-> Int64(0)]

InitRefresh ==
    /\ impl = "Middleware"
    /\ CorsStart({Cors(impl)})
    /\ nz = NzIdle
    /\ reqs = ReqsIdle
    /\ jwt = JwtIdle
    /\ cache = [pc |-> "off"]
    /\ sess = [pc |-> "off"]
    /\ fav = [pc |-> "off"]
    /\ \E j \in TokConfigs :
          tok = [pc |-> "start", j |-> tokInit(j), given |-> j, ticks |-> 0,
                 held |-> NoClaims, origIat |-> 0, refreshes |-> 0,
                 to |-> "", status |-> 0, msg |-> "", at |-> 0]

tokOnly == <<impl, c, given, handler, panicMsg, pc, ctx, trace, nz, reqs, jwt,
             cache, sess, fav>>

\* time passes
TokTick ==
    /\ tok.pc # "off" /\ tok.ticks < MaxTicks
    /\ tok' = [tok EXCEPT !.ticks = @ + 1]
    /\ UNCHANGED tokOnly

\* LoginHandler: Authenticate succeeds and the client receives the token
TokLogin ==
    /\ tok.pc = "start"
    /\ LET cl == loginClaims(tok.j, "alice", tok.ticks * TickMs)
       IN tok' = [tok EXCEPT !.pc = "held", !.held = cl, !.origIat = cl.iat.v,
                             !.status = 200, !.to = "issued", !.at = tok.ticks]
    /\ UNCHANGED tokOnly

\* The client presents its token to RefreshHandler under the Middleware:
\* the Middleware lets a valid token through, RefreshHandler parses it again.
TokRefresh ==
    /\ tok.pc = "held"
    /\ claimsValid(tok.held, tok.ticks * TickMs)
    /\ LET r == refresh(tok.j, decodeClaims(tok.held), tok.ticks * TickMs)
       IN tok' = [tok EXCEPT !.to = r.to, !.status = r.status, !.msg = r.msg,
                             !.at = tok.ticks,
                             !.held = IF r.to = "issued" THEN r.claims ELSE @,
                             !.refreshes = IF r.to = "issued" THEN @ + 1 ELSE @,
                             !.pc = "asked"]
    /\ UNCHANGED tokOnly

\* the client goes on with the token it holds
TokResume ==
    /\ tok.pc = "asked"
    /\ tok' = [tok EXCEPT !.pc = "held"]
    /\ UNCHANGED tokOnly

NextRefresh == TokTick \/ TokLogin \/ TokRefresh \/ TokResume

SpecRefresh == InitRefresh /\ [][NextRefresh]_vars

C22_NotRefreshable ==
    (tok.pc = "asked" /\ tok.given.MaxRefresh = 0) =>
        /\ tok.to = "refused"
        /\ tok.status = 401 /\ tok.msg = "Token is expired"
        /\ tok.refreshes = 0

\* ---------------------------------------------------------------------------
\* cache: the Store implementations and the page cache
\* ---------------------------------------------------------------------------

DEFAULT == 0
FOREVER == -1

\* the error values the stores return
ErrNil       == "nil"
ErrCacheMiss == "cache missing"
ErrConn      == "connection error"
ErrGob       == "gob: type has no exported fields"

\* keys: prefix, whether the URI was replaced by its SHA-1, and the text
Key(prefix, hashed, text) == [prefix |-> prefix, hashed |-> hashed, text |-> text]

\* request URIs: their text and their length
Uris == {[text |-> "/b?x=1", len |-> 6], [text |-> "/long...", len |-> 201]}

\* func (cache *Cache) makeKey(url string) string
makeKey(prefix, uri) == Key(prefix, uri.len > 200, uri.text)

KeyPrefix == "page"
AppKey    == Key("", FALSE, "counter")
StoreKeys == {makeKey(KeyPrefix, u) : u \in Uris} \cup {AppKey}

\* what a store holds under a key
NoEntry            == [present |-> FALSE, val |-> [kind |-> "none"], expire |-> DEFAULT]
Entry(val, expire) == [present |-> TRUE, val |-> val, expire |-> expire]

\* values: a responseCache (three unexported fields) or a string
ResponseCache(status, header, body) ==
    [kind |-> "responseCache", status |-> status, header |-> header, body |-> body]
StringVal(s) == [kind |-> "string", s |-> s]

\* serialize(value): gob refuses a struct without exported fields
serialize(val) == IF val.kind = "responseCache" THEN ErrGob ELSE ErrNil

\* MemoryStore.Get and RedisStore.Get: conn.Do returns (nil, err) when the
\* command fails and (nil, nil) when the key does not exist
get(kind, store, key, connOk) ==
    IF kind = "memory"
    THEN IF ~store[key].present THEN [err |-> ErrCacheMiss, val |-> NoEntry.val]
         ELSE [err |-> ErrNil, val |-> store[key].val]
    ELSE LET rawNil == ~connOk \/ ~store[key].present
         IN IF rawNil THEN [err |-> ErrCacheMiss, val |-> NoEntry.val]
            ELSE [err |-> ErrNil, val |-> store[key].val]

\* MemoryStore.Set and RedisStore.Set: the store afterwards and the error
set(kind, store, key, val, expire, connOk) ==
    IF kind = "memory"
    THEN [store |-> [store EXCEPT ![key] = Entry(val, expire)], err |-> ErrNil]
    ELSE IF serialize(val) # ErrNil THEN [store |-> store, err |-> serialize(val)]
    ELSE IF ~connOk THEN [store |-> store, err |-> ErrConn]
    ELSE [store |-> [store EXCEPT ![key] = Entry(val, expire)], err |-> ErrNil]

\* the response writer of a request: what reached the client, and the
\* cachedWriter's buffer and error
NewWriter == [status |-> 0, header |-> "", body |-> <<>>, buffer |-> <<>>, error |-> ErrNil]

\* func (w *cachedWriter) Write(bytes): ok says whether the underlying
\* writer accepted the bytes
cwWrite(w, bytes, ok) ==
    IF ok THEN [w EXCEPT !.body = Append(@, bytes), !.buffer = Append(@, bytes)]
    ELSE [w EXCEPT !.error = "write failed"]

\* the wrapped handler: it sets status and header and writes two chunks
wrapped(w, status, ok1, ok2) ==
    cwWrite(cwWrite([w EXCEPT !.status = status, !.header = "text/html"],
                    "<p>", ok1), "</p>", ok2)

\* func (w *cachedWriter) cache(): the store afterwards
cwCache(kind, store, key, w, expire, connOk) ==
    IF w.error # ErrNil THEN store
    ELSE set(kind, store, key, ResponseCache(w.status, w.header, w.buffer),
             expire, connOk).store

Expires == {DEFAULT, FOREVER, 60 * Second}

InitCache ==
    /\ impl = "Middleware"
    /\ CorsStart({Cors(impl)})
    /\ nz = NzIdle
    /\ reqs = ReqsIdle
    /\ jwt = JwtIdle
    /\ tok = [pc |-> "off"]
    /\ sess = [pc |-> "off"]
    /\ fav = [pc |-> "off"]
    /\ \E kind \in {"memory", "redis"}, e \in Expires :
          cache = [pc |-> "idle", kind |-> kind, expire |-> e,
                   store |-> [k \in StoreKeys |-> NoEntry],
                   key |-> AppKey, before |-> NoEntry, after |-> NoEntry,
                   w |-> NewWriter, calls |-> 0,
                   probe |-> [err |-> ErrNil, val |-> NoEntry.val],
                   probed |-> NoEntry, probeOk |-> TRUE]

cacheOnly == <<impl, c, given, handler, panicMsg, pc, ctx, trace, nz, reqs, jwt,
               tok, sess, fav>>

\* The handler Cache(expire, handler) returns, for one request
CacheRequest(uri, status, ok1, ok2, getOk, setOk) ==
    /\ cache.pc \in {"idle", "done"}
    /\ LET key == makeKey(KeyPrefix, uri)
           g   == get(cache.kind, cache.store, key, getOk)
       IN IF g.err # ErrNil
          THEN LET w == wrapped(NewWriter, status, ok1, ok2)
                    st == cwCache(cache.kind, cache.store, key, w, cache.expire, setOk)
               IN cache' = [cache EXCEPT
                     !.pc = "done", !.key = key, !.before = cache.store[key],
                     !.w = w, !.calls = 1, !.store = st, !.after = st[key]]
          ELSE cache' = [cache EXCEPT
                     !.pc = "done", !.key = key, !.before = cache.store[key],
                     !.calls = 0, !.after = cache.store[key],
                     !.w = [NewWriter EXCEPT !.status = g.val.status,
                                             !.header = g.val.header,
                                             !.body = g.val.body]]
    /\ UNCHANGED cacheOnly

\* application code sets a value of its own in the same store
StorePut(connOk) ==
    /\ cache.pc \in {"idle", "done", "probed"}
    /\ cache' = [cache EXCEPT
          !.store = set(cache.kind, @, AppKey, StringVal("7"), FOREVER, connOk).store]
    /\ UNCHANGED cacheOnly

\* an entry with a finite lifetime expires
StoreExpire(key) ==
    /\ cache.pc \in {"idle", "done", "probed"}
    /\ cache.store[key].present /\ cache.store[key].expire # FOREVER
    /\ cache' = [cache EXCEPT !.store[key] = NoEntry]
    /\ UNCHANGED cacheOnly

\* a caller asks the store for a key
StoreGet(key, connOk) ==
    /\ cache.pc \in {"idle", "done", "probed"}
    /\ cache' = [cache EXCEPT !.pc = "probed",
                              !.probe = get(cache.kind, cache.store, key, connOk),
                              !.probed = cache.store[key], !.probeOk = connOk]
    /\ UNCHANGED cacheOnly

\* the caller is done with the answer
StoreGetDone ==
    /\ cache.pc = "probed"
    /\ cache' = [cache EXCEPT !.pc = "idle"]
    /\ UNCHANGED cacheOnly

NextCache ==
    \/ \E uri \in Uris, status \in {200, 404}, ok1, ok2, getOk, setOk \in BOOLEAN :
          CacheRequest(uri, status, ok1, ok2, getOk, setOk)
    \/ \E connOk \in BOOLEAN : StorePut(connOk)
    \/ \E key \in StoreKeys : StoreExpire(key)
    \/ \E key \in StoreKeys, connOk \in BOOLEAN : StoreGet(key, connOk)
    \/ StoreGetDone

SpecCache == InitCache /\ [][NextCache]_vars

\* C23: a request whose key the store holds is answered from the entry and
\* the wrapped handler is not called; any other request calls the handler
\* once, and its response (status, header, the bytes written) is stored under
\* the key with the given expiry if and only if no write failed.
C23_Cache ==
    cache.pc = "done" =>
        IF cache.before.present
        THEN /\ cache.calls = 0
             /\ cache.w.status = cache.before.val.status
             /\ cache.w.header = cache.before.val.header
             /\ cache.w.body = cache.before.val.body
        ELSE /\ cache.calls = 1
             /\ (cache.after
                    = Entry(ResponseCache(cache.w.status, cache.w.header, cache.w.body),
                            cache.expire))
                <=> cache.w.error = ErrNil

\* C24: Get answers ErrCacheMiss exactly when the key is not in the store; a
\* failed GET command is returned as its own error.
C24_GetMiss ==
    cache.pc = "probed" =>
        /\ (cache.probe.err = ErrCacheMiss) <=> ~cache.probed.present
        /\ (cache.kind = "redis" /\ ~cache.probeOk) => cache.probe.err = ErrConn

\* ---------------------------------------------------------------------------
\* The origin predicate
\* ---------------------------------------------------------------------------

\* C25: the predicate is called at most once per request, only when the
\* wildcard flag is off and the request origin equals no entry of
\* AllowOrigins, with the raw request origin, and its answer alone then
\* decides; it is not called for a request without Origin or for a listed
\* origin.
C25_PredicatePrecedence ==
    Handled =>
      /\ Len(trace.predCalls) <= 1
      /\ trace.predCalls # <<>> =>
            /\ ~c.allowAllOrigins
            /\ \A i \in 1..Len(c.AllowOrigins) : c.AllowOrigins[i] # ctx.Origin
            /\ trace.predCalls = <<ctx.Origin>>
            /\ (ctx.status = 403 /\ ctx.aborted)
                   <=> ctx.Origin \notin c.AllowOriginFunc.accepts
      /\ (Len(ctx.Origin) = 0 \/ ctx.Origin \in Range(c.AllowOrigins))
            => trace.predCalls = <<>>

C25_Witness ==
    /\ Handled /\ pc = "done"
    /\ c.AllowOrigins = <<OHttpA>> /\ ctx.Origin = OHTTPA
    /\ trace.predCalls = <<OHTTPA>> /\ ctx.status # 403

\* ---------------------------------------------------------------------------
\* Changing the configuration of a cors object and calling Middleware() again
\* ---------------------------------------------------------------------------

ReconfOriginLists == {<<>>, <<Star>>, <<OHttpA>>}

InitReconf ==
    /\ impl \in Variants
    /\ CorsStart(ConfigsConc(impl))
    /\ nz = NzIdle
    /\ reqs = ReqsIdle
    /\ OthersIdle
    /\ jwt = JwtIdle

\* The user assigns AllowOrigins, AllowOriginFunc and AllowCredentials of an
\* object Middleware() has already run on (a panic recovered, if it ended in
\* one); the unexported fields stay as Middleware() left them, and the next
\* step of the object is another Middleware().
Reconfigure(o, f, cr) ==
    /\ handler \in {"ready", "panic"}
    /\ pc = "idle"
    /\ c' = [c EXCEPT !.AllowOrigins = o, !.AllowOriginFunc = f, !.AllowCredentials = cr]
    /\ given' = [given EXCEPT !.AllowOrigins = o, !.AllowOriginFunc = f,
                              !.AllowCredentials = cr]
    /\ handler' = "none"
    /\ panicMsg' = ""
    /\ UNCHANGED <<impl, pc, ctx, trace>>
    /\ UNCHANGED outsideCors

NextReconf ==
    \/ Middleware
    \/ \E o \in ReconfOriginLists, f \in OriginFuncs, cr \in BOOLEAN : Reconfigure(o, f, cr)

SpecReconf == InitReconf /\ [][NextReconf]_vars

\* C26: whenever Middleware() has returned normally, allowAllOrigins is true
\* exactly when the normalized AllowOrigins is ["*"], and the precomputed
\* header sets carry Access-Control-Allow-Origin: * exactly in that case.
C26_DerivedAgree ==
    handler = "ready" =>
        LET all == WildcardOnly(given.AllowOrigins) /\ c.AllowOrigins = <<Star>>
        IN /\ c.allowAllOrigins <=> all
           /\ (c.normalHeaders[ACAOrigin] = <<Star>>) <=> all
           /\ (c.preflightHeaders[ACAOrigin] = <<Star>>) <=> all

\* C27: under a configuration Middleware() accepted with a list of specific
\* origins, a request whose Origin is, character for character, one of the
\* strings the user listed is not answered 403.
C27_ListedOriginAllowed ==
    (CorsRequest /\ RuleB(given.AllowOrigins)
                 /\ ctx.Origin \in Range(given.AllowOrigins)) =>
        ~(ctx.status = 403 /\ ctx.aborted)

\* C28: no response carries both Access-Control-Allow-Origin: * and
\* Access-Control-Allow-Credentials: true.
C28_NoWildcardWithCredentials ==
    Handled => ~(ctx.Header[ACAOrigin] = <<Star>> /\ ctx.Header[ACACredentials] = <<StrTrue>>)

\* ---------------------------------------------------------------------------
\* session: the Session object and its changed flag
\* ---------------------------------------------------------------------------

\* longest list of flashes under one key
MaxFlashes == 2

flashesKey == "_flash"
SessKeys   == {flashesKey, "user"}

\* what Values holds under a key: nothing, a string, or a list of flashes
Absent     == [kind |-> "none", items |-> <<>>]
StrOf(v)   == [kind |-> "str", items |-> <<v>>]
ListOf(vs) == [kind |-> "list", items |-> vs]

EmptyValues == [k \in SessKeys |-> Absent]

\* func (s *Session) Set(key, value)
sessSet(s, key, value) == [s EXCEPT !.Values[key] = StrOf(value), !.changed = TRUE]

\* func (s *Session) Delete(key)
sessDelete(s, key) == [s EXCEPT !.Values[key] = Absent, !.changed = TRUE]

\* func (s *Session) Clear()
sessClear(s) == [s EXCEPT !.Values = EmptyValues, !.changed = TRUE]

\* func (s *Session) AddFlash(args ...string): v.([]interface{}) panics when
\* the key holds a string
addFlash(s, key, value) ==
    IF s.Values[key].kind = "str" THEN [s EXCEPT !.panicked = TRUE]
    ELSE [s EXCEPT !.Values[key] = ListOf(Append(@.items, value))]

\* func (s *Session) Flashes(args ...string)
flashes(s, key) ==
    IF s.Values[key].kind = "none" THEN s
    ELSE IF s.Values[key].kind = "str" THEN [s EXCEPT !.Values[key] = Absent, !.panicked = TRUE]
    ELSE [s EXCEPT !.Values[key] = Absent]

\* func (s *Session) Save() error; ok says whether store.Save succeeds
save(s, ok) ==
    IF ~s.changed THEN [s EXCEPT !.last = "skipped"]
    ELSE IF ok THEN [s EXCEPT !.changed = FALSE, !.persisted = s.Values, !.last = "nil"]
    ELSE [s EXCEPT !.last = "err"]

\* the session Sessions() creates for a request: nothing loaded, not changed
NewSession == [Values |-> EmptyValues, changed |-> FALSE, persisted |-> EmptyValues,
               last |-> "", panicked |-> FALSE]

InitSession ==
    /\ impl = "Middleware"
    /\ CorsStart({Cors(impl)})
    /\ nz = NzIdle
    /\ reqs = ReqsIdle
    /\ jwt = JwtIdle
    /\ tok = [pc |-> "off"]
    /\ cache = [pc |-> "off"]
    /\ fav = [pc |-> "off"]
    /\ sess = NewSession

sessOnly == <<impl, c, given, handler, panicMsg, pc, ctx, trace, nz, reqs, jwt,
              tok, cache, fav>>

SessSet(key, value) ==
    /\ ~sess.panicked
    /\ sess' = [sessSet(sess, key, value) EXCEPT !.last = ""]
    /\ UNCHANGED sessOnly

SessDelete(key) ==
    /\ ~sess.panicked
    /\ sess' = [sessDelete(sess, key) EXCEPT !.last = ""]
    /\ UNCHANGED sessOnly

SessClear ==
    /\ ~sess.panicked
    /\ sess' = [sessClear(sess) EXCEPT !.last = ""]
    /\ UNCHANGED sessOnly

SessAddFlash(key, value) ==
    /\ ~sess.panicked
    /\ Len(sess.Values[key].items) < MaxFlashes
    /\ sess' = [addFlash(sess, key, value) EXCEPT !.last = ""]
    /\ UNCHANGED sessOnly

SessFlashes(key) ==
    /\ ~sess.panicked
    /\ sess' = [flashes(sess, key) EXCEPT !.last = ""]
    /\ UNCHANGED sessOnly

SessSave(ok) ==
    /\ ~sess.panicked
    /\ sess' = save(sess, ok)
    /\ UNCHANGED sessOnly

NextSession ==
    \/ \E key \in SessKeys, value \in {"a", "b"} : SessSet(key, value)
    \/ \E key \in SessKeys : SessDelete(key)
    \/ SessClear
    \/ \E key \in SessKeys, value \in {"m", "n"} : SessAddFlash(key, value)
    \/ \E key \in SessKeys : SessFlashes(key)
    \/ \E ok \in BOOLEAN : SessSave(ok)

SpecSession == InitSession /\ [][NextSession]_vars

\* C29: whenever the changed flag is false the contents equal the contents
\* last saved (or as loaded); a failed store.Save leaves the flag set; after a
\* Save that returned nil no modification is unsaved.
C29_ChangedFlag ==
    ~sess.panicked =>
        /\ ~sess.changed => sess.Values = sess.persisted
        /\ sess.last = "err" => sess.changed
        /\ sess.last \in {"nil", "skipped"} => sess.Values = sess.persisted

\* ---------------------------------------------------------------------------
\* favicon: the Favicon middleware
\* ---------------------------------------------------------------------------

defaultMaxAge == 60 * 60 * 24 * 365

FaviconPath == "/favicon.ico"

\* the files Favicon() is built on, with fmt.Sprintf("%x", md5 ...) of each
Icons == {"a", "b"}
md5hex(data) ==
    CASE data = "a" -> "0cc175b9c0f1b6a831c399e269772661"
      [] data = "b" -> "92eb5ffee6ae2fec3ad71c777531578f"

Txt_publicMaxAge == <<"p","u","b","l","i","c",","," ","m","a","x","-","a","g","e","=">>

\* Favicon(path, maxAge...): the values the returned closure captures
FavConfigs ==
    { [favicon |-> i, age |-> a, etag |-> md5hex(i)] :
        i \in Icons, a \in {defaultMaxAge, 60} }

\* req.Header["If-None-Match"]: no values = key absent; the server never
\* stores a key with an empty list
IfNoneMatchValues == {md5hex("a"), md5hex("b"), "W/x"}
IfNoneMatch ==
    {<<>>} \cup {<<v>> : v \in IfNoneMatchValues}
           \cup {<<v, w>> : v \in IfNoneMatchValues, w \in IfNoneMatchValues}

FavRequests ==
    [Path : {FaviconPath, "/"}, Method : {"GET", "HEAD", "OPTIONS", "POST"},
     IfNoneMatch : IfNoneMatch]

FavHeaderNames == {"Allow", "Content-Length", "Cache-Control", "ETag"}

\* the response before the handler touched it: net/http answers 200 when
\* Write comes without WriteHeader
FavBlank == [status |-> 200, header |-> [h \in FavHeaderNames |-> <<>>],
             body |-> "", next |-> FALSE]

\* the closure returned by Favicon (src/favicon.go:30-64)
favHandle(f, req) ==
    IF req.Path # FaviconPath THEN [FavBlank EXCEPT !.next = TRUE]
    ELSE IF req.Method # "GET" /\ req.Method # "HEAD"
    THEN [FavBlank EXCEPT !.status = IF req.Method = "OPTIONS" THEN 200 ELSE 405,
                          !.header["Allow"] = <<"GET, HEAD, OPTIONS">>,
                          !.header["Content-Length"] = <<"0">>]
    ELSE LET cached == [FavBlank EXCEPT
                          !.header["Cache-Control"] = <<Txt_publicMaxAge \o Itoa(f.age)>>]
         IN  IF req.IfNoneMatch # <<>>
             THEN IF req.IfNoneMatch[1] = f.etag
                  THEN [cached EXCEPT !.status = 304, !.body = ""]
                  ELSE [cached EXCEPT !.body = f.favicon]
             ELSE [cached EXCEPT !.header["ETag"] = <<f.etag>>, !.body = f.favicon]

NoFavRequest == [Path |-> "", Method |-> "", IfNoneMatch |-> <<>>]

InitFavicon ==
    /\ impl = "Middleware"
    /\ CorsStart({Cors(impl)})
    /\ nz = NzIdle
    /\ reqs = ReqsIdle
    /\ jwt = JwtIdle
    /\ tok = [pc |-> "off"]
    /\ cache = [pc |-> "off"]
    /\ sess = [pc |-> "off"]
    /\ \E f \in FavConfigs :
          fav = [pc |-> "idle", f |-> f, req |-> NoFavRequest, resp |-> FavBlank]

favOnly == <<impl, c, given, handler, panicMsg, pc, ctx, trace, nz, reqs, jwt,
             tok, cache, sess>>

\* a request runs through the closure
FavHandle(req) ==
    /\ fav.pc = "idle"
    /\ LET r == favHandle(fav.f, req)
       IN  fav' = [fav EXCEPT !.req = req, !.resp = r,
                              !.pc = IF r.next THEN "next" ELSE "done"]
    /\ UNCHANGED favOnly

\* c.Next(): the rest of the chain answers
FavNext ==
    /\ fav.pc = "next"
    /\ fav' = [fav EXCEPT !.resp.body = "page", !.pc = "done"]
    /\ UNCHANGED favOnly

\* the response is sent; the closure waits for the next request
FavSent ==
    /\ fav.pc = "done"
    /\ fav' = [fav EXCEPT !.req = NoFavRequest, !.resp = FavBlank, !.pc = "idle"]
    /\ UNCHANGED favOnly

NextFavicon ==
    \/ \E req \in FavRequests : FavHandle(req)
    \/ FavNext
    \/ FavSent

SpecFavicon == InitFavicon /\ [][NextFavicon]_vars

\* C30: for GET or HEAD /favicon.ico the answer is 304 with an empty body
\* exactly when the first If-None-Match value equals the ETag; every other
\* answer carries the icon, its ETag header and the Cache-Control max-age; the
\* next handler is never invoked.
C30_Favicon ==
    (/\ fav.pc = "done"
     /\ fav.req.Path = FaviconPath
     /\ fav.req.Method \in {"GET", "HEAD"}) =>
        /\ (fav.resp.status = 304 /\ fav.resp.body = "")
              <=> (fav.req.IfNoneMatch # <<>> /\ fav.req.IfNoneMatch[1] = fav.f.etag)
        /\ fav.resp.status # 304 =>
              /\ fav.resp.body = fav.f.favicon
              /\ fav.resp.header["ETag"] = <<fav.f.etag>>
              /\ fav.resp.header["Cache-Control"] = <<Txt_publicMaxAge \o Itoa(fav.f.age)>>
        /\ ~fav.resp.next

====
